---- MODULE Spec2Model ----
(***************************************************************************)
(* State-machine model of the UniFi Access doorbell bridge                 *)
(* (esp32/unifi-doorbell/src).                                             *)
(*                                                                         *)
(* The firmware is one cooperative control loop (main.cpp loop()) plus the *)
(* ESP-IDF websocket task that runs websocket_event_handler().  The model  *)
(* is split into specifications that share one set of variables; each      *)
(* specification moves the variables of one part and leaves the others at  *)
(* their initial values:                                                   *)
(*   SpecCall   mailbox, doorbell-event decoder, active call, stale check  *)
(*   SpecConn   login trigger, websocket connect/reconnect policy          *)
(*   SpecChunk  ChunkedStream (HTTP chunked transfer decoder)              *)
(*   SpecLogin  unifiLogin() on response texts                             *)
(*   SpecTopo   fetchTopologyStreaming() / unifiGetTopology()              *)
(***************************************************************************)
EXTENDS Integers, Sequences, FiniteSets, TLC

VARIABLES
  \* ---- clock and control-loop position (main.cpp) ----
  clock,                        \* millis()
  pc,                           \* position of loop() in its body
  \* ---- mailbox and active call (websocket.cpp) ----
  pendingMessage,               \* contents of the 8 KiB buffer, or NullPtr
  pendingMessageProcess,        \* ready flag
  activeRequestId,
  activeDeviceId,
  activeConnectedUahId,
  activeCallTime,
  pendingDoorbellStatePublish,
  pendingDoorbellRinging,
  mqttConnected,                \* mqtt.connected()
  mqttPublished,                \* last retained doorbell status on the broker
  \* history variables of the mailbox (not program state)
  nextFid,                      \* number of data events delivered so far
  unconsumed,                   \* ids of frames accepted and not yet taken by drain
  dropped,                      \* ids of doorbell frames dropped at a full slot
  decoded,                      \* ids of frames the decoder has read
  \* ---- controller session (unifi_api.cpp) ----
  csrfToken,
  sessionCookie,
  userId,
  userName,
  isLoggedIn,
  unifiLastError,
  \* the last unifiLogin() call: its inputs and its return value
  loginIn,                      \* NoLogin or the input record
  loginRet,                     \* NoLogin, "true" or "false"
  \* ---- connection state (network.cpp, websocket.cpp, main.cpp) ----
  networkConnected,
  wsConnected,
  wsClient,                     \* TRUE iff wsClient != NULL
  wsLastError,
  wsReconnectFailures,
  lastWsReconnect,
  lastLoginAttempt,
  reg,                          \* value loaded by wsReconnectFailures++
  \* history variables of the connection (not program state)
  everConnected,                \* a CONNECTED event arrived in this session
  lastFire,                     \* what the last firing of the policy did
  firings,                      \* firings since the session began or connected
  wsDownFor,                    \* ms since wsConnected was last true, up to DownCap
  ticks,                        \* retry intervals that have passed (SpecRecover)
  \* ---- ChunkedStream and the client it reads (unifi_api.cpp:12-181) ----
  src,                          \* bytes the server sends on the connection
  pos,                          \* bytes the decoder has taken from the client
  avail,                        \* bytes that have arrived (pos <= avail)
  clientConnected,              \* client.connected()
  isChunked,
  remainingInChunk,
  finished,
  needChunkSize,
  timeout,
  caller,                       \* the public method being executed
  chunkLine,                    \* local of readNextChunkSize
  crlfCount,                    \* local of skipChunkTrailer
  length,                       \* argument of readBytes
  totalRead,                    \* local of readBytes
  ret,                          \* value returned by the last call
  \* history variables of the decoder (not program state)
  payload,                      \* the content the server encoded into src
  out,                          \* bytes returned as content so far
  stalled,                      \* a bounded wait or the deadline has expired
  waitStart,                    \* start: millis() when the current wait loop began
  \* ---- unifiGetTopology (unifi_api.cpp:562-595) ----
  attempt,                      \* loop counter of unifiGetTopology
  topoResult,                   \* the JSON text returned by the last call, as a record
  \* history variables of the topology fetch (not program state)
  topoIn,                       \* what the controller answered to the last attempt
  attemptLog,                   \* outcome of each attempt of the current call
  \* ---- unifiTriggerRing, unifiDismissCall (unifi_api.cpp:329-391, 597-682) ----
  \* history variables of the authenticated requests (not program state)
  apiCall,                      \* the last call: its inputs and what it did
  rejected                      \* a request was answered 401 and no login followed

callVars == <<pendingMessage, pendingMessageProcess, activeRequestId, activeDeviceId,
              activeConnectedUahId, activeCallTime, pendingDoorbellStatePublish,
              pendingDoorbellRinging, mqttConnected, mqttPublished,
              nextFid, unconsumed, dropped, decoded>>

sessionVars == <<csrfToken, sessionCookie, userId, userName, isLoggedIn,
                 unifiLastError>>

loginVars == <<loginIn, loginRet>>

connVars == <<networkConnected, wsConnected, wsClient, wsLastError,
              wsReconnectFailures, lastWsReconnect, lastLoginAttempt, reg,
              everConnected, lastFire, firings, wsDownFor>>

chunkVars == <<src, pos, avail, clientConnected, isChunked, remainingInChunk, finished,
               needChunkSize, timeout, caller, chunkLine, crlfCount, length,
               totalRead, ret, payload, out, stalled, waitStart>>

topoVars == <<attempt, topoResult, topoIn, attemptLog>>

apiVars == <<apiCall, rejected>>

vars == <<clock, pc, callVars, sessionVars, loginVars, connVars, chunkVars, topoVars,
          apiVars, ticks>>

\* what the actions of SpecCall leave alone
exCall == <<sessionVars, loginVars, connVars, chunkVars, topoVars, apiVars, ticks>>

\* unifi_api.cpp:183-189; loginIn/loginRet: no login has been made
NoLogin == "none"

InitSession ==
  /\ csrfToken = <<>>
  /\ sessionCookie = <<>>
  /\ userId = ""
  /\ userName = ""
  /\ isLoggedIn = FALSE
  /\ unifiLastError = ""
  /\ loginIn = NoLogin
  /\ loginRet = NoLogin

\* no answer of the controller
NoAnswer == [connect |-> FALSE]

\* no topology has been asked for
NoResult == [success |-> FALSE, message |-> ""]

\* no authenticated request has been made
NoCall == [op |-> "none"]

InitApiIdle ==
  /\ apiCall = NoCall
  /\ rejected = FALSE

InitTopoIdle ==
  /\ attempt = 0
  /\ topoResult = NoResult
  /\ topoIn = NoAnswer
  /\ attemptLog = <<>>

\* no ChunkedStream has been constructed
InitChunkIdle ==
  /\ src = <<>>
  /\ pos = 0
  /\ avail = 0
  /\ clientConnected = FALSE
  /\ isChunked = FALSE
  /\ remainingInChunk = 0
  /\ finished = FALSE
  /\ needChunkSize = TRUE
  /\ timeout = 0
  /\ caller = "none"
  /\ chunkLine = <<>>
  /\ crlfCount = 0
  /\ length = 0
  /\ totalRead = 0
  /\ ret = 0
  /\ payload = <<>>
  /\ out = <<>>
  /\ stalled = FALSE
  /\ waitStart = 0

\* network.cpp:14, websocket.cpp:17-19,36, main.cpp:57-58
InitConnIdle ==
  /\ networkConnected = FALSE
  /\ wsConnected = FALSE
  /\ wsClient = FALSE
  /\ wsLastError = ""
  /\ wsReconnectFailures = 0
  /\ lastWsReconnect = 0
  /\ lastLoginAttempt = 0
  /\ reg = 0
  /\ everConnected = FALSE
  /\ lastFire = "none"
  /\ firings = 0
  /\ wsDownFor = 0
  /\ ticks = 0

(***************************************************************************)
(* Clock.  millis() is an unsigned long: a 32-bit counter that wraps.      *)
(* TLC's integers are 32-bit signed, so the modulus is scaled to 2^30;     *)
(* every comparison and subtraction below is done as the unsigned          *)
(* arithmetic of the source, modulo ClockMod.                              *)
(***************************************************************************)
ClockMod == 2^30

Sub32(a, b) == (a - b + ClockMod) % ClockMod

STALE_CALL_TIMEOUT == 300000

\* Instants at which the model samples the clock: just after boot, around
\* the stale timeout, and around the wrap of the counter.
BootMs == 1000

ClockPoints == {0, BootMs, BootMs + STALE_CALL_TIMEOUT,
                BootMs + STALE_CALL_TIMEOUT + 1, ClockMod - 1}

(***************************************************************************)
(* Inbound websocket frames.  A frame is what esp_websocket_event_data_t   *)
(* carries: the opcode, the payload length class, and the payload.  The    *)
(* payload is kept as the result ArduinoJson gives for it:                 *)
(*   marker  memmem(payload, "remote_view") found                          *)
(*   json    "ok" | "bad" (does not start with '{', or does not parse)     *)
(*   event   doc["event"] | ""                                             *)
(*   hasData doc["data"] is an object                                      *)
(*   rid, dev, uah   data.request_id, data.device_id, data.connected_uah_id*)
(*   endId   data.remote_call_request_id                                   *)
(***************************************************************************)
EvRing == "access.remote_view"
EvChange == "access.remote_view.change"

Body(marker, json, event, hasData, rid, dev, uah, endId) ==
  [marker |-> marker, json |-> json, event |-> event, hasData |-> hasData,
   rid |-> rid, dev |-> dev, uah |-> uah, endId |-> endId]

RingBody(rid, dev, uah) == Body(TRUE, "ok", EvRing, TRUE, rid, dev, uah, "")
EndBody(endId) == Body(TRUE, "ok", EvChange, TRUE, "", "", "", endId)

EmptyBody == Body(FALSE, "bad", "", FALSE, "", "", "", "")

Bodies ==
  { RingBody("r1", "d1", "u1"), RingBody("r2", "d2", ""), RingBody("", "d1", "u1"),
    EndBody("r1"), EndBody("r2"), EndBody(""),
    Body(TRUE, "ok", EvRing, FALSE, "", "", "", ""),
    Body(TRUE, "ok", "access.remote_view.other", TRUE, "r1", "d1", "", "r1"),
    Body(TRUE, "bad", "", FALSE, "", "", "", ""),
    Body(FALSE, "ok", "access.data.device.update", TRUE, "r1", "d1", "", "r1") }

\* data->op_code of a text frame (0x01); the model's other opcode is 2 (binary).
OP_TEXT == 1

\* len is data->data_len, in bytes.
Frames ==
  { [op |-> OP_TEXT, len |-> 1, body |-> b] : b \in Bodies }
  \cup { [op |-> 2, len |-> 1, body |-> RingBody("r1", "d1", "u1")],
         [op |-> OP_TEXT, len |-> 0, body |-> EmptyBody] }

\* The buffer is kept as the frame it holds (fid, body) and the index of its
\* terminator (len), which is the number of bytes in front of it.
\* pendingMessage == nullptr: initWebSocket() could not allocate the buffer
NullPtr == [fid |-> 0 - 1, body |-> EmptyBody, len |-> 0]

\* The buffer after initWebSocket(): pendingMessage[0] = '\0'.
EmptyBuf == [fid |-> 0, body |-> EmptyBody, len |-> 0]

\* websocket.h:18: the size of the buffer, in bytes
MESSAGE_BUFFER_SIZE == 8192

copyLen_NoRoom(n) == IF n < MESSAGE_BUFFER_SIZE THEN n ELSE MESSAGE_BUFFER_SIZE

\* websocket.cpp:69-70: the number of bytes the handler copies from a frame
\* of n bytes
copyLen(n) == IF n < MESSAGE_BUFFER_SIZE - 1 THEN n ELSE MESSAGE_BUFFER_SIZE - 1

\* what the buffer holds of a payload of n bytes: the whole document, or a
\* prefix of it, which does not parse
Copied(b, n) == IF copyLen(n) < n THEN [b EXCEPT !.json = "bad"] ELSE b

MaxFrames == 3

\* the longest time, in ms, that passes in one step of the model while the
\* loop is inside a pass
MaxStepMs == 1000

(***************************************************************************)
(* websocket_event_handler, case WEBSOCKET_EVENT_DATA (websocket task).    *)
(***************************************************************************)
IsDoorbellFrame_NoMarker(f) == f.op = OP_TEXT /\ f.len > 0

\* websocket.cpp:65-67: a non-empty text frame that contains "remote_view"
IsDoorbellFrame(f) == f.op = OP_TEXT /\ f.len > 0 /\ f.body.marker

SlotFree_NoFlagCheck == pendingMessage # NullPtr

\* websocket.cpp:68
SlotFree == ~pendingMessageProcess /\ pendingMessage # NullPtr

EvData_WritesCall(f) ==
  /\ nextFid < MaxFrames
  /\ nextFid' = nextFid + 1
  /\ activeRequestId' = f.body.rid
  /\ activeDeviceId' = f.body.dev
  /\ activeConnectedUahId' = f.body.uah
  /\ activeCallTime' = clock
  /\ UNCHANGED <<clock, pc, pendingMessage, pendingMessageProcess, unconsumed, dropped,
                 pendingDoorbellStatePublish, pendingDoorbellRinging,
                 mqttConnected, mqttPublished, decoded, exCall>>

EvData(f) ==
  /\ nextFid < MaxFrames
  /\ nextFid' = nextFid + 1
  /\ IF IsDoorbellFrame(f) /\ SlotFree
       THEN /\ pendingMessage' = [fid |-> nextFid + 1, body |-> Copied(f.body, f.len),
                                  len |-> copyLen(f.len)]
            /\ pendingMessageProcess' = TRUE
            /\ unconsumed' = Append(unconsumed, nextFid + 1)
            /\ UNCHANGED dropped
       ELSE /\ dropped' = IF IsDoorbellFrame(f) THEN dropped \cup {nextFid + 1}
                                                ELSE dropped
            /\ UNCHANGED <<pendingMessage, pendingMessageProcess, unconsumed>>
  /\ UNCHANGED <<clock, pc, activeRequestId, activeDeviceId, activeConnectedUahId,
                 activeCallTime, pendingDoorbellStatePublish, pendingDoorbellRinging,
                 mqttConnected, mqttPublished, decoded, exCall>>

(***************************************************************************)
(* processWebSocketMessage(): the drain step of the control loop.  The     *)
(* flag is cleared first and the decoder then reads the buffer through     *)
(* the pointer, so the two are separate steps of the loop: the websocket   *)
(* task can run between them.                                              *)
(***************************************************************************)
DrainTake ==
  /\ pc = "drain"
  /\ IF ~pendingMessageProcess
       THEN /\ pc' = "mqtt"
            /\ UNCHANGED <<pendingMessageProcess, unconsumed>>
       ELSE /\ pendingMessageProcess' = FALSE
            /\ unconsumed' = Tail(unconsumed)
            /\ pc' = "decode"
  /\ UNCHANGED <<clock, pendingMessage, activeRequestId, activeDeviceId,
                 activeConnectedUahId, activeCallTime, pendingDoorbellStatePublish,
                 pendingDoorbellRinging, mqttConnected, mqttPublished, nextFid,
                 dropped, decoded, exCall>>

\* websocket.cpp:221-232: the message starts with '{', parses, and names `ev`
\* with a non-null data object
IsEvent(m, ev) == m.json = "ok" /\ m.event = ev /\ m.hasData

RingAccepted_AnyId(m) == TRUE

\* websocket.cpp:241
RingAccepted(m) == m.rid # ""

EndMatches_AnyId(m) == m.endId # ""

\* websocket.cpp:265
EndMatches(m) == m.endId # "" /\ activeRequestId = m.endId

\* websocket.cpp:234-258 (ring) and 260-278 (end), on message body m
handleWebSocketMessage(m) ==
  IF IsEvent(m, EvRing) /\ RingAccepted(m)
    THEN /\ activeRequestId' = m.rid
         /\ activeDeviceId' = m.dev
         /\ activeConnectedUahId' = m.uah
         /\ activeCallTime' = clock
         /\ pendingDoorbellStatePublish' = TRUE
         /\ pendingDoorbellRinging' = TRUE
  ELSE IF IsEvent(m, EvChange) /\ EndMatches(m)
    THEN /\ activeRequestId' = ""
         /\ activeDeviceId' = ""
         /\ activeConnectedUahId' = ""
         /\ pendingDoorbellStatePublish' = TRUE
         /\ pendingDoorbellRinging' = FALSE
         /\ UNCHANGED activeCallTime
  ELSE UNCHANGED <<activeRequestId, activeDeviceId, activeConnectedUahId,
                   activeCallTime, pendingDoorbellStatePublish, pendingDoorbellRinging>>

DrainDecode ==
  /\ pc = "decode"
  /\ handleWebSocketMessage(pendingMessage.body)
  /\ decoded' = decoded \cup {pendingMessage.fid}
  /\ pc' = "mqtt"
  /\ UNCHANGED <<clock, pendingMessage, pendingMessageProcess, mqttConnected,
                 mqttPublished, nextFid, unconsumed, dropped, exCall>>

(***************************************************************************)
(* The rest of the loop body after the drain step (main.cpp:189-216).      *)
(***************************************************************************)
mailboxVars == <<pendingMessage, pendingMessageProcess, nextFid, unconsumed,
                 dropped, decoded>>

\* mqtt_client.cpp:161-177: the retained status on the broker, if connected
publishDoorbellState(connected, ringing) ==
  IF connected THEN (IF ringing THEN "ringing" ELSE "idle") ELSE mqttPublished

\* the dismiss pattern of gpio.cpp:100-108, mqtt_client.cpp:216-222 and 251-257:
\* `ok` is the result of unifiDismissCall(activeDeviceId, activeRequestId)
DismissActiveCall(ok) ==
  IF activeRequestId # "" /\ activeDeviceId # "" /\ ok
    THEN /\ activeRequestId' = ""
         /\ activeDeviceId' = ""
         /\ activeConnectedUahId' = ""
         /\ mqttPublished' = publishDoorbellState(mqttConnected', FALSE)
    ELSE UNCHANGED <<activeRequestId, activeDeviceId, activeConnectedUahId,
                     mqttPublished>>

\* main.cpp:190-195: mqttReconnect() when the broker is not connected
\* (`up`: the connect succeeded), which publishes the current doorbell state
LoopMqttReconnect(up) ==
  /\ pc = "mqtt"
  /\ ~mqttConnected
  /\ mqttConnected' = up
  /\ mqttPublished' = publishDoorbellState(up, activeRequestId # "")
  /\ pc' = "mqttLoop"
  /\ UNCHANGED <<clock, activeRequestId, activeDeviceId, activeConnectedUahId,
                 activeCallTime, pendingDoorbellStatePublish, pendingDoorbellRinging,
                 mailboxVars, exCall>>

LoopMqttConnected ==
  /\ pc = "mqtt"
  /\ mqttConnected
  /\ pc' = "mqttLoop"
  /\ UNCHANGED <<clock, callVars, exCall>>

\* main.cpp:195 mqttLoop(): mqttCallback may run a dismiss command
\* (`cmd` = "dismiss") whose unifiDismissCall returns `ok`
LoopMqttLoop(cmd, ok) ==
  /\ pc = "mqttLoop"
  /\ UNCHANGED mqttConnected
  /\ IF cmd = "dismiss" /\ mqttConnected
       THEN DismissActiveCall(ok)
       ELSE UNCHANGED <<activeRequestId, activeDeviceId, activeConnectedUahId,
                        mqttPublished>>
  /\ pc' = "publish"
  /\ UNCHANGED <<clock, activeCallTime, pendingDoorbellStatePublish,
                 pendingDoorbellRinging, mailboxVars, exCall>>

\* main.cpp:197-201
LoopPublish ==
  /\ pc = "publish"
  /\ IF pendingDoorbellStatePublish
       THEN /\ pendingDoorbellStatePublish' = FALSE
            /\ mqttPublished' = publishDoorbellState(mqttConnected, pendingDoorbellRinging)
       ELSE UNCHANGED <<pendingDoorbellStatePublish, mqttPublished>>
  /\ pc' = "gpio"
  /\ UNCHANGED <<clock, activeRequestId, activeDeviceId, activeConnectedUahId,
                 activeCallTime, pendingDoorbellRinging, mqttConnected, mailboxVars,
                 exCall>>

\* main.cpp:204 checkGpioTriggers(): a door-contact trigger may fire
LoopGpio(contact, ok) ==
  /\ pc = "gpio"
  /\ UNCHANGED mqttConnected
  /\ IF contact
       THEN DismissActiveCall(ok)
       ELSE UNCHANGED <<activeRequestId, activeDeviceId, activeConnectedUahId,
                        mqttPublished>>
  /\ pc' = "stale"
  /\ UNCHANGED <<clock, activeCallTime, pendingDoorbellStatePublish,
                 pendingDoorbellRinging, mailboxVars, exCall>>

\* main.cpp:208-209
IsStale(currentTime) ==
  /\ activeRequestId # ""
  /\ activeCallTime > 0
  /\ currentTime > activeCallTime
  /\ Sub32(currentTime, activeCallTime) > STALE_CALL_TIMEOUT

\* main.cpp:206-216
LoopStale ==
  /\ pc = "stale"
  /\ IF IsStale(clock)
       THEN /\ activeRequestId' = ""
            /\ activeDeviceId' = ""
            /\ activeConnectedUahId' = ""
            /\ activeCallTime' = 0
            /\ mqttPublished' = publishDoorbellState(mqttConnected, FALSE)
       ELSE UNCHANGED <<activeRequestId, activeDeviceId, activeConnectedUahId,
                        activeCallTime, mqttPublished>>
  /\ pc' = "top"
  /\ UNCHANGED <<clock, pendingDoorbellStatePublish, pendingDoorbellRinging,
                 mqttConnected, mailboxVars, exCall>>

\* main.cpp:124-184 up to the drain step: writes nothing of the call state
LoopHead ==
  /\ pc = "top"
  /\ pc' = "drain"
  /\ UNCHANGED <<clock, callVars, exCall>>

\* the broker connection is lost
MqttDrop ==
  /\ mqttConnected
  /\ mqttConnected' = FALSE
  /\ UNCHANGED <<clock, pc, pendingMessage, pendingMessageProcess, activeRequestId,
                 activeDeviceId, activeConnectedUahId, activeCallTime,
                 pendingDoorbellStatePublish, pendingDoorbellRinging, mqttPublished,
                 nextFid, unconsumed, dropped, decoded, exCall>>

\* the sampled instant that follows c on the wrapping counter
NextPoint(c) ==
  IF \E p \in ClockPoints : p > c
    THEN CHOOSE p \in ClockPoints : p > c /\ \A q \in ClockPoints : q > c => p <= q
    ELSE CHOOSE p \in ClockPoints : \A q \in ClockPoints : p <= q

\* no instant strictly between a and b (going forwards, through the wrap when
\* a > b) is one at which the stale check of main.cpp:208-209 would fire
NoStaleBetween(a, b) ==
  \/ activeRequestId = ""
  \/ activeCallTime = 0
  \/ IF a < b
       THEN ~(b - 1 > a /\ b - 1 > activeCallTime + STALE_CALL_TIMEOUT)
       ELSE /\ ~(a < ClockMod - 1 /\ ClockMod - 1 > activeCallTime + STALE_CALL_TIMEOUT)
            /\ ~(b >= 1 /\ b - 1 > activeCallTime + STALE_CALL_TIMEOUT)

\* the loop is between two passes with nothing waiting for it
LoopIdle == pc = "top" /\ ~pendingMessageProcess /\ ~pendingDoorbellStatePublish

\* Time passes: millis() moves on to the next sampled instant.  Up to
\* MaxStepMs may pass anywhere; a longer time stands for passes of the loop
\* that do nothing, so it is taken only between passes, with nothing waiting
\* and with no instant skipped at which the stale check would have fired.
TickCall ==
  /\ clock' = NextPoint(clock)
  /\ \/ Sub32(NextPoint(clock), clock) <= MaxStepMs
     \/ LoopIdle /\ NoStaleBetween(clock, NextPoint(clock))
  /\ UNCHANGED <<pc, callVars, exCall>>

\* the globals of websocket.cpp other than the buffer pointer
InitCallRest ==
  /\ pendingMessageProcess = FALSE
  /\ activeRequestId = ""
  /\ activeDeviceId = ""
  /\ activeConnectedUahId = ""
  /\ activeCallTime = 0
  /\ pendingDoorbellStatePublish = FALSE
  /\ pendingDoorbellRinging = FALSE
  /\ mqttConnected = FALSE
  /\ mqttPublished = "none"
  /\ nextFid = 0
  /\ unconsumed = <<>>
  /\ dropped = {}
  /\ decoded = {}

InitCallIdle ==
  /\ pendingMessage = EmptyBuf
  /\ InitCallRest

InitCall ==
  /\ clock = BootMs
  /\ pc = "top"
  /\ InitCallIdle
  /\ InitSession
  /\ InitConnIdle
  /\ InitChunkIdle
  /\ InitTopoIdle
  /\ InitApiIdle

NextCall ==
  \/ \E f \in Frames : EvData(f)
  \/ LoopHead
  \/ DrainTake
  \/ DrainDecode
  \/ \E up \in BOOLEAN : LoopMqttReconnect(up)
  \/ LoopMqttConnected
  \/ \E cmd \in {"none", "dismiss"}, ok \in BOOLEAN : LoopMqttLoop(cmd, ok)
  \/ LoopPublish
  \/ \E contact \in BOOLEAN, ok \in BOOLEAN : LoopGpio(contact, ok)
  \/ LoopStale
  \/ MqttDrop
  \/ TickCall

SpecCall == InitCall /\ [][NextCall]_vars

(***************************************************************************)
(* Properties of the mailbox and of the active call (SpecCall).            *)
(***************************************************************************)
ActiveCall == <<activeRequestId, activeDeviceId, activeConnectedUahId, activeCallTime>>

\* a data event is delivered to the handler in this step
DataStep == nextFid' = nextFid + 1

\* drain() takes the message in this step
TakeStep == pc = "drain" /\ pc' = "decode"

\* the decoder reads the buffer in this step
DecodeStep == pc = "decode" /\ pc' = "mqtt"

\* the stale check of the loop runs in this step
StaleStep == pc = "stale" /\ pc' = "top"

\* C1: a doorbell frame delivered while the slot is occupied is dropped
\* without changing the buffer or the ready flag; when drain() takes the
\* message, the buffer holds the first frame accepted since the last drain;
\* a dropped frame is never decoded; at most one message is unconsumed.
C1_MailboxDrop ==
  /\ [](Len(unconsumed) <= 1)
  /\ [](dropped \cap decoded = {})
  /\ [][DataStep /\ pendingMessageProcess
          => pendingMessage' = pendingMessage /\ pendingMessageProcess' = TRUE]_vars
  /\ [][TakeStep
          => pendingMessage.fid = Head(unconsumed) /\ pendingMessage' = pendingMessage]_vars

\* two frames arrived before one drain: the first was decoded, the second dropped
C1_Witness == 1 \in decoded /\ 2 \in dropped /\ pc = "mqtt"

\* C5: an end event clears the active call if and only if its request id is
\* non-empty and equals activeRequestId; any other end event (different or
\* empty id, or no call active) leaves the active call unchanged.
C5_EndEventMatching ==
  [][DecodeStep /\ IsEvent(pendingMessage.body, EvChange)
      => IF pendingMessage.body.endId # "" /\ pendingMessage.body.endId = activeRequestId
           THEN activeRequestId' = "" /\ activeDeviceId' = "" /\ activeConnectedUahId' = ""
           ELSE ActiveCall' = ActiveCall]_vars

\* a matching end event has just cleared the call
C5_Witness ==
  /\ pc = "mqtt"
  /\ activeRequestId = ""
  /\ pendingDoorbellStatePublish
  /\ ~pendingDoorbellRinging

\* C6 (as claimed): when the stale check runs on an active call whose age,
\* clock minus activeCallTime, is above 5 minutes, the call is cleared and
\* idle is published; at an age of at most 5 minutes the call is unchanged.
C6_StaleClear ==
  [][StaleStep /\ activeRequestId # ""
      => IF Sub32(clock, activeCallTime) > STALE_CALL_TIMEOUT
           THEN /\ activeRequestId' = ""
                /\ (mqttConnected => mqttPublished' = "idle")
           ELSE ActiveCall' = ActiveCall]_vars

\* C7: a decoded ring event with a non-empty request id sets the active call
\* to the event's request_id, device_id and connected_uah_id with
\* activeCallTime = millis(), whatever call was active; a ring event with an
\* empty request id leaves the active call unchanged.
C7_RingEventCreation ==
  [][DecodeStep /\ IsEvent(pendingMessage.body, EvRing)
      => IF pendingMessage.body.rid # ""
           THEN /\ activeRequestId' = pendingMessage.body.rid
                /\ activeDeviceId' = pendingMessage.body.dev
                /\ activeConnectedUahId' = pendingMessage.body.uah
                /\ activeCallTime' = clock
           ELSE ActiveCall' = ActiveCall]_vars

\* the ring "r2" has just been decoded while the broker still shows the
\* ringing state of an earlier call
C7_Witness ==
  /\ pc = "mqtt"
  /\ activeRequestId = "r2"
  /\ activeDeviceId = "d2"
  /\ activeCallTime = clock
  /\ pendingDoorbellStatePublish
  /\ mqttPublished = "ringing"

\* the websocket task delivers a data event in this step
HandlerStep == \E f \in Frames : EvData(f)

\* the positions of loop() from the decoder of drain() to the stale check
\* (main.cpp:187-216)
AfterDrain == {"decode", "mqttLoop", "gpio", "stale"}

\* C22: the event handler never writes activeRequestId, activeDeviceId,
\* activeConnectedUahId or activeCallTime; every change of the ActiveCall is
\* made by a step of loop() at or after the decoder that drain() hands the
\* message to, and a call is created or overwritten only by that decoder.
C22_ActiveCallOnControlLoop ==
  [][/\ HandlerStep => ActiveCall' = ActiveCall
     /\ ActiveCall' # ActiveCall => pc \in AfterDrain /\ pc' # pc
     /\ activeRequestId' \notin {"", activeRequestId} => DecodeStep]_vars

\* a ring has been decoded into the ActiveCall while the handler had already
\* put the next frame into the mailbox
C22_Witness ==
  /\ pc = "mqtt"
  /\ activeRequestId # "" /\ activeCallTime = clock
  /\ pendingMessageProcess
  /\ nextFid >= 2 /\ 1 \in decoded

\* C23 (as claimed): every frame accepted into the mailbox is decoded
\* exactly once; from the step in which drain() takes a message to the end
\* of the decoder the handler does not write the buffer, so the decoder
\* reads the frame that was taken.
C23_HandOffSafe ==
  /\ [][pendingMessage' # pendingMessage => pc # "decode"]_vars
  /\ [][DecodeStep => pendingMessage.fid \notin decoded]_vars
  /\ [](pc = "mqtt" /\ unconsumed = <<>> =>
          \A fid \in 1..nextFid : fid \in decoded \/ fid \in dropped
                                     \/ fid # pendingMessage.fid)

\* the handler has written the buffer between the take and the decode
OverwrittenBeforeDecode ==
  /\ pc = "decode"
  /\ pendingMessageProcess
  /\ pendingMessage.fid = 2
  /\ unconsumed = <<2>>
  /\ decoded = {}

\* the buffer or the ready flag changes in this step
MailboxWritten ==
  pendingMessage' # pendingMessage \/ pendingMessageProcess' # pendingMessageProcess

\* C24: a data event changes the buffer or the ready flag only if it is a
\* text frame of non-zero length whose payload contains "remote_view" and
\* the slot is free; every other data event leaves both unchanged.
C24_MarkerFilter ==
  [][\A f \in Frames :
       EvData(f) /\ MailboxWritten =>
         /\ f.op = OP_TEXT /\ f.len > 0 /\ f.body.marker
         /\ ~pendingMessageProcess /\ pendingMessage # NullPtr]_vars

\* the first frame was delivered to a free slot and left the mailbox alone,
\* the second was accepted
C24_Witness ==
  /\ pc = "top"
  /\ nextFid = 2
  /\ pendingMessageProcess /\ pendingMessage.fid = 2
  /\ unconsumed = <<2>> /\ dropped = {} /\ decoded = {}

\* C38: with millis() a wrapping counter, for every start time, 0 and the
\* instants shortly before the wrap included, the stale check clears an
\* active call whose age (clock minus start, modulo the counter) is above
\* 5 minutes.
C38_StaleAcrossWrap ==
  [][StaleStep /\ activeRequestId # ""
        /\ Sub32(clock, activeCallTime) > STALE_CALL_TIMEOUT
      => activeRequestId' = "" /\ activeCallTime' = 0]_vars

\* the stale check runs on a call that started at millis() = 0 and is older
\* than 5 minutes, and keeps it
StaleFromZeroKept ==
  /\ pc = "stale" /\ activeRequestId # "" /\ activeCallTime = 0
  /\ Sub32(clock, activeCallTime) > STALE_CALL_TIMEOUT
  /\ ~IsStale(clock)

\* the stale check runs on a call that started just before the wrap and is
\* older than 5 minutes, and keeps it
StaleBeforeWrapKept ==
  /\ pc = "stale" /\ activeRequestId # "" /\ activeCallTime = ClockMod - 1
  /\ Sub32(clock, activeCallTime) > STALE_CALL_TIMEOUT
  /\ ~IsStale(clock)

\* without a wrap between the start and the check, and with a start time
\* above 0, the stale check clears the call at an age above 5 minutes
StaleClearedWithoutWrap ==
  [][StaleStep /\ activeRequestId # "" /\ activeCallTime > 0
        /\ clock > activeCallTime
        /\ clock - activeCallTime > STALE_CALL_TIMEOUT
      => activeRequestId' = "" /\ activeCallTime' = 0]_vars

\* the status a subscriber of the doorbell topic should hold
ExpectedStatus == IF activeRequestId # "" THEN "ringing" ELSE "idle"

\* C37 (as claimed): with the broker connected, when loop() has completed
\* an iteration the last doorbell status published is "ringing" exactly
\* when a call is active and "idle" otherwise.
C37_PublishedFollowsCall ==
  pc = "top" /\ mqttConnected => mqttPublished = ExpectedStatus

\* an iteration has ended with "ringing" published and no call active
RingingPublishedWithoutCall ==
  /\ pc = "top" /\ mqttConnected
  /\ mqttPublished = "ringing"
  /\ activeRequestId = ""
  /\ ~pendingDoorbellStatePublish

\* mqttReconnect() publishes the current state
PublishedOnReconnect ==
  [][pc = "mqtt" /\ ~mqttConnected /\ mqttConnected' => mqttPublished' = ExpectedStatus]_vars

(***************************************************************************)
(* SpecMailbox: the mailbox from setup() on, with frames of every length   *)
(* around the size of the buffer and with both outcomes of the allocation. *)
(* pc = "boot" is setup() before initWebSocket() (main.cpp:79); the stream *)
(* is opened later, from loop(), so no data event arrives at "boot".       *)
(***************************************************************************)
\* websocket.cpp:91-113: `ok` is the outcome of ps_malloc()/malloc()
initWebSocket(ok) ==
  /\ pc = "boot"
  /\ pendingMessage' = IF pendingMessage = NullPtr
                         THEN (IF ok THEN EmptyBuf ELSE NullPtr)
                         ELSE pendingMessage
  /\ pc' = "top"
  /\ UNCHANGED <<clock, pendingMessageProcess, activeRequestId, activeDeviceId,
                 activeConnectedUahId, activeCallTime, pendingDoorbellStatePublish,
                 pendingDoorbellRinging, mqttConnected, mqttPublished, nextFid,
                 unconsumed, dropped, decoded, exCall>>

\* data->data_len of the frames delivered
BoxLengths ==
  {0, 1, MESSAGE_BUFFER_SIZE - 2, MESSAGE_BUFFER_SIZE - 1, MESSAGE_BUFFER_SIZE,
   MESSAGE_BUFFER_SIZE + 1, 2 * MESSAGE_BUFFER_SIZE}

BoxFrames ==
  { [op |-> OP_TEXT, len |-> n, body |-> b] :
      n \in BoxLengths,
      b \in { RingBody("r1", "d1", "u1"), EndBody("r1"),
              Body(FALSE, "ok", "access.data.device.update", TRUE, "r1", "d1", "", "r1") } }

InitBox ==
  /\ clock = BootMs
  /\ pc = "boot"
  /\ pendingMessage = NullPtr
  /\ InitCallRest
  /\ InitSession
  /\ InitConnIdle
  /\ InitChunkIdle
  /\ InitTopoIdle
  /\ InitApiIdle

NextBox ==
  \/ \E ok \in BOOLEAN : initWebSocket(ok)
  \/ \E f \in BoxFrames : pc # "boot" /\ EvData(f)
  \/ LoopHead
  \/ DrainTake
  \/ DrainDecode
  \/ \E up \in BOOLEAN : LoopMqttReconnect(up)
  \/ LoopMqttConnected
  \/ \E cmd \in {"none", "dismiss"}, ok \in BOOLEAN : LoopMqttLoop(cmd, ok)
  \/ LoopPublish
  \/ \E contact \in BOOLEAN, ok \in BOOLEAN : LoopGpio(contact, ok)
  \/ LoopStale

SpecMailbox == InitBox /\ [][NextBox]_vars

\* C39: for every frame length the handler copies at most 8191 bytes, never
\* more than the frame has, and the whole frame when it fits; the terminator
\* of an allocated buffer is at an index inside the 8192 bytes; the ready
\* flag is set only with the buffer allocated, and the decoder is never
\* handed an unallocated buffer.
C39_MailboxBounds ==
  /\ \A n \in BoxLengths :
        /\ copyLen(n) <= MESSAGE_BUFFER_SIZE - 1
        /\ copyLen(n) <= n
        /\ (n <= MESSAGE_BUFFER_SIZE - 1 => copyLen(n) = n)
  /\ pendingMessage # NullPtr => pendingMessage.len \in 0..(MESSAGE_BUFFER_SIZE - 1)
  /\ pendingMessageProcess => pendingMessage # NullPtr
  /\ pc = "decode" => pendingMessage # NullPtr

\* the decoder is handed a frame of more than 8191 bytes, cut to 8191
C39_Witness ==
  /\ pc = "decode"
  /\ pendingMessage.fid > 0
  /\ pendingMessage.len = MESSAGE_BUFFER_SIZE - 1
  /\ pendingMessage.body.json = "bad"

\* the allocation failed and a doorbell frame was dropped with the flag clear
UnallocatedDrops ==
  /\ pendingMessage = NullPtr /\ pc # "boot"
  /\ dropped # {} /\ ~pendingMessageProcess

\* a frame of exactly 8191 bytes is held whole
LongestWholeFrame ==
  /\ pendingMessage.fid > 0
  /\ pendingMessage.len = MESSAGE_BUFFER_SIZE - 1
  /\ pendingMessage.body.json = "ok"

(***************************************************************************)
(* SpecConn: login trigger and websocket reconnect policy.                 *)
(*                                                                         *)
(* loop() is cut at the points where another task can be seen to run:      *)
(*   "top"      networkLoop(), the network gate and the login trigger      *)
(*   "login"    unifiLogin() and what follows a successful login           *)
(*   "ws"       the reconnect condition (main.cpp:168-170)                 *)
(*   "wsLoad"   wsReconnectFailures++ : load                               *)
(*   "wsStore"  wsReconnectFailures++ : store                              *)
(*   "wsBranch" the threshold test and its two branches                    *)
(* The websocket task delivers CONNECTED / DISCONNECTED / ERROR while a    *)
(* client exists; the web server task can log in through /api/test.        *)
(* wsReconnectFailures is a plain int written by both tasks, so the        *)
(* increment is modelled as a load and a store that the handler's reset    *)
(* can fall between.  networkLoop() is the WiFi build (network.cpp:97).    *)
(***************************************************************************)
LOGIN_RETRY_INTERVAL == 30000

WS_RETRY_INTERVAL == 10000

WS_MAX_FAILURES == 5

\* the clock stops advancing after MaxTicks retry intervals
MaxTicks == 9

sessionRest == <<csrfToken, sessionCookie, userId, userName, unifiLastError>>

\* the session fields only unifiLogin()'s success path and the API calls write
sessionKept == <<csrfToken, sessionCookie, userId, userName>>

\* what the actions of SpecConn leave alone
exConn == <<callVars, sessionKept, loginIn, chunkVars, topoVars, apiVars, ticks>>

\* what the last unifiLogin() left: its diagnostic and (loginRet) what it returned
loginOutcome == <<unifiLastError, loginRet>>

\* history: the time the stream has not been connected is counted up to
\* one ms past the retry interval
DownCap == WS_RETRY_INTERVAL + 1

\* wsDownFor after a step that takes d ms and leaves wsConnected = nextConnected
DownFor(nextConnected, d) ==
  IF nextConnected \/ wsConnected THEN 0
  ELSE IF wsDownFor + d > DownCap THEN DownCap ELSE wsDownFor + d

disconnectWebSocket_Nothing == <<wsClient, wsConnected>>

disconnectWebSocket_KeepFlag == <<FALSE, wsConnected>>

\* websocket.cpp:115-125 as a function of the state: <<wsClient, wsConnected>>
disconnectWebSocket == <<FALSE, IF wsClient THEN FALSE ELSE wsConnected>>

\* websocket.cpp:131-183; started: esp_websocket_client_init/start succeeded.
\* Called with isLoggedIn true at both call sites of loop().
connectWebSocket(started) ==
  /\ wsClient' = started
  /\ wsConnected' = disconnectWebSocket[2]
  /\ wsLastError' = ""

\* main.cpp:123-159 up to the login call.  wifiUp: WiFi.status() == WL_CONNECTED
LoopTop(wifiUp) ==
  /\ pc = "top"
  /\ LET lost == ~wifiUp /\ networkConnected
         loggedIn == IF lost THEN FALSE ELSE isLoggedIn
     IN  /\ networkConnected' = wifiUp
         /\ isLoggedIn' = loggedIn
         /\ wsClient' = IF lost THEN disconnectWebSocket[1] ELSE wsClient
         /\ wsConnected' = IF lost THEN disconnectWebSocket[2] ELSE wsConnected
         /\ IF ~wifiUp
              THEN pc' = "top" /\ UNCHANGED lastLoginAttempt
              ELSE IF ~loggedIn /\ Sub32(clock, lastLoginAttempt) > LOGIN_RETRY_INTERVAL
                     THEN pc' = "login" /\ lastLoginAttempt' = clock
                     ELSE pc' = "ws" /\ UNCHANGED lastLoginAttempt
  /\ wsDownFor' = DownFor(wsConnected', 0)
  /\ UNCHANGED <<clock, wsLastError, wsReconnectFailures, lastWsReconnect, reg,
                 everConnected, lastFire, firings, loginOutcome, exConn>>

\* unifi_api.cpp:207-291: what unifiLogin() leaves in unifiLastError when it
\* returns ok; "" with false is the return without credentials (209-212)
LoginDiagnostics(ok) ==
  IF ok THEN {""} ELSE {"", "Connection failed", "Reconnection failed", "Login failed"}

\* the diagnostic when the logins that fail are those that cannot connect
Unreachable(ok) == IF ok THEN "" ELSE "Connection failed"

\* main.cpp:152-158.  ok: what unifiLogin() returns, err: its diagnostic;
\* d: the time it took
LoopLogin(ok, err, d, started) ==
  /\ pc = "login"
  /\ pc' = "ws"
  /\ unifiLastError' = err
  /\ loginRet' = IF ok THEN "true" ELSE "false"
  /\ clock' = (clock + d) % ClockMod
  /\ wsDownFor' = DownFor(FALSE, d)
  /\ IF ok
       THEN /\ isLoggedIn' = TRUE
            /\ connectWebSocket(started)
            /\ lastWsReconnect' = clock'
            /\ wsReconnectFailures' = 0
            /\ everConnected' = FALSE
            /\ firings' = 0
       ELSE UNCHANGED <<isLoggedIn, wsClient, wsConnected, wsLastError, lastWsReconnect,
                        wsReconnectFailures, everConnected, firings>>
  /\ UNCHANGED <<networkConnected, lastLoginAttempt, reg, lastFire, exConn>>

WsRetryDue_Never == FALSE

WsRetryDue_AtInterval == Sub32(clock, lastWsReconnect) >= WS_RETRY_INTERVAL

\* main.cpp:169, currentMs - lastWsReconnect > WS_RETRY_INTERVAL
WsRetryDue == Sub32(clock, lastWsReconnect) > WS_RETRY_INTERVAL

\* main.cpp:162-170
LoopWsCheck ==
  /\ pc = "ws"
  /\ IF isLoggedIn /\ ~wsConnected /\ WsRetryDue
       THEN pc' = "wsLoad" /\ lastWsReconnect' = clock
       ELSE pc' = "top" /\ UNCHANGED lastWsReconnect
  /\ lastFire' = "none"
  /\ UNCHANGED <<clock, isLoggedIn, networkConnected, wsConnected, wsClient, wsLastError,
                 wsReconnectFailures, lastLoginAttempt, reg, everConnected, firings,
                 wsDownFor,
                 loginOutcome, exConn>>

\* websocket.cpp:201-204, the load of wsReconnectFailures++
IncLoad ==
  /\ pc = "wsLoad"
  /\ pc' = "wsStore"
  /\ reg' = wsReconnectFailures
  /\ UNCHANGED <<clock, isLoggedIn, networkConnected, wsConnected, wsClient, wsLastError,
                 wsReconnectFailures, lastWsReconnect, lastLoginAttempt, everConnected,
                 lastFire, firings, wsDownFor,
                 loginOutcome, exConn>>

\* websocket.cpp:201-204, the store of wsReconnectFailures++
IncStore ==
  /\ pc = "wsStore"
  /\ pc' = "wsBranch"
  /\ wsReconnectFailures' = reg + 1
  /\ UNCHANGED <<clock, isLoggedIn, networkConnected, wsConnected, wsClient, wsLastError,
                 lastWsReconnect, lastLoginAttempt, reg, everConnected, lastFire,
                 firings, wsDownFor,
                 loginOutcome, exConn>>

TooManyFailures_Never == FALSE

TooManyFailures_Above == wsReconnectFailures > WS_MAX_FAILURES

\* main.cpp:173
TooManyFailures == wsReconnectFailures >= WS_MAX_FAILURES

\* main.cpp:173-182
WsBranch(started) ==
  /\ pc = "wsBranch"
  /\ pc' = "top"
  /\ firings' = firings + 1
  /\ IF TooManyFailures
       THEN /\ wsClient' = disconnectWebSocket[1]
            /\ wsConnected' = disconnectWebSocket[2]
            /\ isLoggedIn' = FALSE
            /\ wsReconnectFailures' = 0
            /\ lastLoginAttempt' = 0
            /\ lastFire' = "escalate"
            /\ UNCHANGED wsLastError
       ELSE /\ connectWebSocket(started)
            /\ lastFire' = "connect"
            /\ UNCHANGED <<isLoggedIn, wsReconnectFailures, lastLoginAttempt>>
  /\ wsDownFor' = DownFor(wsConnected', 0)
  /\ UNCHANGED <<clock, networkConnected, lastWsReconnect, reg, everConnected, loginOutcome, exConn>>

\* websocket.cpp:48-53, in the websocket task
EvConnected ==
  /\ wsClient /\ ~wsConnected
  /\ wsConnected' = TRUE
  /\ wsReconnectFailures' = 0
  /\ wsLastError' = ""
  /\ everConnected' = TRUE
  /\ firings' = 0
  /\ wsDownFor' = 0
  /\ UNCHANGED <<clock, pc, isLoggedIn, networkConnected, wsClient, lastWsReconnect,
                 lastLoginAttempt, reg, lastFire, loginOutcome, exConn>>

\* websocket.cpp:55-61, in the websocket task
EvDisconnected ==
  /\ wsClient
  /\ wsConnected' = FALSE
  /\ wsLastError' = IF wsLastError = "" THEN "Disconnected" ELSE wsLastError
  /\ wsDownFor' = DownFor(wsConnected', 0)
  /\ UNCHANGED <<clock, pc, isLoggedIn, networkConnected, wsClient, wsReconnectFailures,
                 lastWsReconnect, lastLoginAttempt, reg, everConnected, lastFire,
                 firings, loginOutcome, exConn>>

\* websocket.cpp:80-84, in the websocket task
EvError ==
  /\ wsClient
  /\ wsConnected' = FALSE
  /\ wsLastError' = "Connection error"
  /\ wsDownFor' = DownFor(wsConnected', 0)
  /\ UNCHANGED <<clock, pc, isLoggedIn, networkConnected, wsClient, wsReconnectFailures,
                 lastWsReconnect, lastLoginAttempt, reg, everConnected, lastFire,
                 firings, loginOutcome, exConn>>

\* webserver.cpp:457-472 (/api/test) with unifiLogin() returning true
WebLogin ==
  /\ networkConnected
  /\ isLoggedIn' = TRUE
  /\ unifiLastError' = ""
  /\ loginRet' = "true"
  /\ everConnected' = (isLoggedIn /\ everConnected)
  /\ firings' = IF isLoggedIn THEN firings ELSE 0
  /\ UNCHANGED <<clock, pc, networkConnected, wsConnected, wsClient, wsLastError,
                 wsReconnectFailures, lastWsReconnect, lastLoginAttempt, reg, lastFire,
                 wsDownFor,
                 exConn>>

\* millis() between two passes of loop()
TickConn(d) ==
  /\ pc = "top"
  /\ clock + d <= BootMs + MaxTicks * WS_RETRY_INTERVAL
  /\ clock' = clock + d
  /\ wsDownFor' = DownFor(wsConnected, d)
  /\ UNCHANGED <<pc, isLoggedIn, networkConnected, wsConnected, wsClient, wsLastError,
                 wsReconnectFailures, lastWsReconnect, lastLoginAttempt, reg,
                 everConnected, lastFire, firings, loginOutcome, exConn>>

InitConn ==
  /\ clock = BootMs
  /\ pc = "top"
  /\ InitCallIdle
  /\ InitSession
  /\ InitConnIdle
  /\ InitChunkIdle
  /\ InitTopoIdle
  /\ InitApiIdle

NextConn ==
  \/ \E wifiUp \in BOOLEAN : LoopTop(wifiUp)
  \/ \E ok \in BOOLEAN, d \in {0, 1}, started \in BOOLEAN :
       LoopLogin(ok, Unreachable(ok), d, started)
  \/ LoopWsCheck
  \/ IncLoad
  \/ IncStore
  \/ \E started \in BOOLEAN : WsBranch(started)
  \/ EvConnected
  \/ EvDisconnected
  \/ EvError
  \/ WebLogin
  \/ \E d \in {WS_RETRY_INTERVAL, WS_RETRY_INTERVAL + 1} : TickConn(d)

SpecConn == InitConn /\ [][NextConn]_vars

\* ---- properties of SpecConn ----

\* one firing of the reconnect policy: its increment, and its branch
FireIncrement == pc = "wsStore" /\ pc' = "wsBranch"

FireBranch == pc = "wsBranch" /\ pc' = "top"

\* C2: in a logged-in session whose stream has not connected, each firing of
\* the reconnect policy increments wsReconnectFailures by one; a firing that
\* brings it to 1..4 calls connectWebSocket() and leaves the session logged
\* in, and the firing that brings it to 5 makes no connect: it closes the
\* stream, sets isLoggedIn false and resets wsReconnectFailures to 0.
C2_ReconnectEscalation ==
  /\ [](wsReconnectFailures \in 0..WS_MAX_FAILURES)
  /\ [][FireIncrement /\ ~everConnected
          => wsReconnectFailures' = wsReconnectFailures + 1]_vars
  /\ [][FireBranch /\ ~everConnected
          => IF wsReconnectFailures \in 1..4
               THEN /\ lastFire' = "connect"
                    /\ isLoggedIn'
                    /\ wsReconnectFailures' = wsReconnectFailures
               ELSE /\ wsReconnectFailures = 5
                    /\ lastFire' = "escalate"
                    /\ ~wsClient' /\ ~wsConnected'
                    /\ ~isLoggedIn'
                    /\ wsReconnectFailures' = 0]_vars

\* five firings in a row in a session that never connected: the fifth escalated
C2_Witness ==
  /\ lastFire = "escalate" /\ firings = 5 /\ ~everConnected
  /\ ~isLoggedIn /\ wsReconnectFailures = 0 /\ pc = "top"

\* the stream's state as the flags of websocket.cpp show it: connected;
\* failed after an error event; connecting while a started client has
\* reported nothing; disconnected otherwise
StreamState ==
  IF wsConnected THEN "Connected"
  ELSE IF wsLastError = "Connection error" THEN "Failed"
  ELSE IF wsClient /\ wsLastError = "" THEN "Connecting"
  ELSE "Disconnected"

\* C11, as the specification states it: in every reachable state a
\* Connected stream has a transport handle and a Disconnected or Failed
\* stream has none.
C11_StreamStateInvariant ==
  /\ StreamState = "Connected" => wsClient
  /\ StreamState \in {"Disconnected", "Failed"} => ~wsClient

\* C11, amended: in every reachable state a Connected stream has a transport
\* handle, so a stream without a handle is not Connected.  (A stream that
\* a disconnect or error event left Disconnected or Failed keeps its handle
\* until the control loop closes or reconnects it.)
C11_ConnectedHasHandle ==
  /\ StreamState = "Connected" => wsClient
  /\ ~wsClient => StreamState \in {"Disconnected", "Failed"}

\* a stream that was connected and dropped: Disconnected, handle still there
C11_Witness ==
  /\ everConnected
  /\ StreamState = "Disconnected"
  /\ wsClient
  /\ isLoggedIn

\* the reconnect policy fires: loop() enters the block of main.cpp:170
FirePolicy == pc = "ws" /\ pc' = "wsLoad"

\* C13, as the specification states it: the reconnect policy fires on a
\* stream that was connected and dropped only when the stream has not been
\* connected for longer than the 10 s retry interval.
C13_FiresAfterDisconnectedInterval ==
  [][FirePolicy /\ everConnected => wsDownFor > WS_RETRY_INTERVAL]_vars

\* C13, amended: the reconnect policy fires only in a logged-in session
\* whose stream is not connected, and only when more than 10 s have passed
\* since lastWsReconnect, which the firing sets to the current time and a
\* successful login of the control loop sets to the time after the login;
\* so two firings, or a login and a firing, are more than 10 s apart, while
\* the time since the stream dropped is not looked at.
C13_ReconnectInterval ==
  /\ [][FirePolicy =>
          /\ isLoggedIn /\ ~wsConnected
          /\ Sub32(clock, lastWsReconnect) > WS_RETRY_INTERVAL
          /\ lastWsReconnect' = clock]_vars
  /\ [][pc = "login" /\ pc' = "ws" /\ ~isLoggedIn /\ isLoggedIn'
          => lastWsReconnect' = clock']_vars

\* the policy fired on a stream that had been connected and dropped with
\* no time passed since
C13_Witness ==
  /\ pc = "wsLoad"
  /\ everConnected
  /\ wsDownFor = 0
  /\ lastWsReconnect = clock

\* C14: wsReconnectFailures is 0 in every state in which the stream is
\* connected, under every interleaving of the CONNECTED event with the
\* control loop's increment, and a step that forces re-login leaves it 0.
C14_FailuresZeroWhileConnected ==
  /\ [](wsConnected => wsReconnectFailures = 0)
  /\ [][pc = "wsBranch" /\ isLoggedIn /\ ~isLoggedIn'
          => wsReconnectFailures' = 0]_vars

\* C14 without the interleaving: when the CONNECTED event does not fall
\* between the control loop's test of wsConnected and its branch, the
\* counter is 0 while the stream is connected
FailuresZeroOutsideRace ==
  wsConnected /\ pc \notin {"wsLoad", "wsStore", "wsBranch"} => wsReconnectFailures = 0

\* the reconnect policy calls connectWebSocket() in this step (main.cpp:181)
ReconnectStep == FireBranch /\ lastFire' = "connect"

\* C31 (as claimed): when the reconnect policy calls connectWebSocket(),
\* the client that its disconnectWebSocket() destroys is not connected,
\* under every interleaving of the CONNECTED event with loop().
C31_ReconnectSparesConnected == [][ReconnectStep => ~wsConnected]_vars

\* the same statement for the passes of loop() in which no event of the
\* websocket task falls between the test of wsConnected and the branch
ReconnectSparesConnectedAtTest ==
  [][FirePolicy => ~wsConnected]_vars

\* the CONNECTED event has arrived after the test of main.cpp:169 and the
\* reconnect policy is about to call connectWebSocket()
ConnectedBeforeReconnect ==
  /\ pc = "wsBranch"
  /\ wsConnected /\ wsClient
  /\ ~TooManyFailures

\* loop() is between two iterations
BetweenIterations == pc = "top"

\* C33: at the end of every iteration of loop() wsReconnectFailures is
\* within 0..4: it is below WS_MAX_FAILURES in every state between two
\* iterations, after any sequence of connects, disconnects, logins and
\* escalations.
C33_FailureCounterBound ==
  BetweenIterations => wsReconnectFailures \in 0..(WS_MAX_FAILURES - 1)

\* an iteration has ended with the counter at 4, after the fourth firing in
\* a row has called connectWebSocket()
C33_Witness ==
  /\ BetweenIterations
  /\ lastFire = "connect" /\ firings = 4
  /\ wsReconnectFailures = 4

RetryLoopTop == \E wifiUp \in BOOLEAN : LoopTop(wifiUp)

RetryLoopLogin ==
  \E err \in LoginDiagnostics(FALSE), d \in {0, 1} : LoopLogin(FALSE, err, d, FALSE)

RetryTick == \E d \in {WS_RETRY_INTERVAL, WS_RETRY_INTERVAL + 1} : TickConn(d)

NextRetry ==
  \/ RetryLoopTop
  \/ RetryLoopLogin
  \/ LoopWsCheck
  \/ RetryTick

SpecRetry == InitConn /\ [][NextRetry]_vars

\* ---- properties of SpecRetry ----

\* the last unifiLogin() failed as an authentication error: no credentials
\* (returns false with no diagnostic) or no session cookie
AuthError == loginRet = "false" /\ unifiLastError \in {"", "Login failed"}

\* loop() starts an automatic login
LoopStartsLogin == pc = "top" /\ pc' = "login"

\* C20: once a unifiLogin() has failed for missing credentials or for a
\* response without session cookie, loop() starts no login of its own.
C20_NoRetryAfterAuthError == [][LoopStartsLogin => ~AuthError]_vars

\* what loop() does: an automatic login whenever the network is up, the
\* session is not logged in and more than LOGIN_RETRY_INTERVAL has passed
\* since the last one, whatever that one's diagnostic
RetryEveryInterval ==
  [][LoopStartsLogin <=> /\ pc = "top" /\ networkConnected' /\ ~isLoggedIn'
                         /\ Sub32(clock, lastLoginAttempt) > LOGIN_RETRY_INTERVAL
                         /\ pc' # "top"]_vars

(***************************************************************************)
(* SpecRecover: the control loop and the websocket task of SpecConn under  *)
(* fair scheduling.  For the first FaultTicks retry intervals the network, *)
(* the controller and the stream may fail in every way SpecConn allows;    *)
(* from then on WiFi stays up, unifiLogin() and the start of the client    *)
(* succeed and the stream is not dropped.  loop() runs forever, the        *)
(* websocket task delivers the CONNECTED event of a started client, and    *)
(* millis() advances: these are the fairness conditions.                   *)
(***************************************************************************)

\* retry intervals during which faults may happen
FaultTicks == 4

\* retry intervals that pass after the faults have stopped
SettleTicks == 4

Faulty == ticks < FaultTicks

\* values the environment may still choose
Outcomes == IF Faulty THEN BOOLEAN ELSE {TRUE}

\* millis() advances by a retry interval and a bit, wrapping as the
\* counter does; time passes wherever loop() is
TickRecover ==
  /\ ticks < FaultTicks + SettleTicks
  /\ ticks' = ticks + 1
  /\ clock' = (clock + WS_RETRY_INTERVAL + 1) % ClockMod
  /\ wsDownFor' = DownFor(wsConnected, WS_RETRY_INTERVAL + 1)
  /\ UNCHANGED <<pc, isLoggedIn, networkConnected, wsConnected, wsClient, wsLastError,
                 wsReconnectFailures, lastWsReconnect, lastLoginAttempt, reg,
                 everConnected, lastFire, firings,
                 callVars, sessionRest, loginVars, chunkVars, topoVars, apiVars>>

RecoverLoopTop == \E wifiUp \in Outcomes : LoopTop(wifiUp)

RecoverLoopLogin ==
  \E ok \in Outcomes, started \in Outcomes : LoopLogin(ok, Unreachable(ok), 1, started)

RecoverWsBranch == \E started \in Outcomes : WsBranch(started)

\* the stream drops, or the operator tests the login from the web page
RecoverFault ==
  /\ Faulty
  /\ EvDisconnected \/ EvError \/ WebLogin

\* millis() at power-up, and shortly before the counter wraps
RecoverStarts == {BootMs, ClockMod - WS_RETRY_INTERVAL}

InitRecover ==
  /\ clock \in RecoverStarts
  /\ pc = "top"
  /\ InitCallIdle
  /\ InitSession
  /\ InitConnIdle
  /\ InitChunkIdle
  /\ InitTopoIdle
  /\ InitApiIdle

NextRecover ==
  \/ RecoverLoopTop
  \/ RecoverLoopLogin
  \/ LoopWsCheck
  \/ IncLoad
  \/ IncStore
  \/ RecoverWsBranch
  \/ EvConnected
  \/ RecoverFault
  \/ TickRecover

SpecRecover ==
  /\ InitRecover
  /\ [][NextRecover]_vars
  /\ WF_vars(RecoverLoopTop)
  /\ WF_vars(RecoverLoopLogin)
  /\ WF_vars(LoopWsCheck)
  /\ WF_vars(IncLoad)
  /\ WF_vars(IncStore)
  /\ WF_vars(RecoverWsBranch)
  /\ WF_vars(EvConnected)
  /\ WF_vars(TickRecover)

\* C12: once the network stays up and the controller accepts the login
\* and the stream, whatever state the faults before have left, the system
\* reaches a state with the network up, isLoggedIn true and the stream
\* connected, with no step of the operator.
C12_Recovery == ~Faulty ~> (networkConnected /\ isLoggedIn /\ wsConnected)

\* recovered after an escalation: the faults have stopped, the policy's
\* last firing forced a re-login, and the session is up again
C12_Witness ==
  /\ ~Faulty
  /\ lastFire = "escalate"
  /\ networkConnected /\ isLoggedIn /\ wsConnected

(***************************************************************************)
(* SpecEscalate: the control loop and the websocket task of SpecRecover,   *)
(* without fairness, started also four retry intervals before millis()     *)
(* wraps, so that an escalation falls shortly after the wrap.              *)
(***************************************************************************)

EscalateStarts == {BootMs, ClockMod - 4 * WS_RETRY_INTERVAL}

InitEscalate ==
  /\ clock \in EscalateStarts
  /\ pc = "top"
  /\ InitCallIdle
  /\ InitSession
  /\ InitConnIdle
  /\ InitChunkIdle
  /\ InitTopoIdle
  /\ InitApiIdle

SpecEscalate == InitEscalate /\ [][NextRecover]_vars

\* loop() passes the network test with the session logged out by the
\* escalation of the last firing
PassAfterEscalation ==
  /\ pc = "top" /\ pc' # "top"
  /\ lastFire = "escalate"
  /\ ~isLoggedIn

\* loop() starts a login in this step (main.cpp:150-152)
LoginStarts == pc = "top" /\ pc' = "login"

\* C35 (as claimed): the first iteration of loop() with the network up after
\* an escalation starts a login, whatever the time since the last attempt;
\* a login that follows a failed one starts more than LOGIN_RETRY_INTERVAL
\* after it.
C35_PromptRelogin ==
  /\ [][PassAfterEscalation => LoginStarts]_vars
  /\ [][LoginStarts /\ loginRet = "false"
          => Sub32(clock, lastLoginAttempt) > LOGIN_RETRY_INTERVAL]_vars

\* the same statement while millis() is above LOGIN_RETRY_INTERVAL
PromptReloginAfterThirtySeconds ==
  [][PassAfterEscalation /\ clock > LOGIN_RETRY_INTERVAL => LoginStarts]_vars

\* the escalation has fallen into the first 30 s after the wrap of
\* millis(): logged out, lastLoginAttempt = 0, and no login is due
EscalatedAfterWrap ==
  /\ pc = "top"
  /\ lastFire = "escalate" /\ ~isLoggedIn /\ networkConnected
  /\ lastLoginAttempt = 0
  /\ clock <= LOGIN_RETRY_INTERVAL

(***************************************************************************)
(* SpecChunk: ChunkedStream over a client that delivers the bytes of src.  *)
(*                                                                         *)
(* Bytes are one-character strings.  The server side (EncodeChunked) is    *)
(* modelled from RFC 9112 section 7.1, the framing the decoder is written  *)
(* for: per chunk the size in hexadecimal, CRLF, the data, CRLF; then the  *)
(* zero-size chunk and a final CRLF.                                       *)
(***************************************************************************)
CR == "\r"

LF == "\n"

HexLower == <<"0", "1", "2", "3", "4", "5", "6", "7", "8", "9",
              "a", "b", "c", "d", "e", "f">>

HexUpper == <<"0", "1", "2", "3", "4", "5", "6", "7", "8", "9",
              "A", "B", "C", "D", "E", "F">>

\* the hexadecimal numeral of n, most significant digit first
RECURSIVE ToHex(_, _)
ToHex(n, digits) ==
  IF n < 16 THEN <<digits[n + 1]>>
  ELSE ToHex(n \div 16, digits) \o <<digits[(n % 16) + 1]>>

\* 0..15 for a hexadecimal digit character, -1 for any other character
HexVal(c) ==
  IF \E i \in 1..16 : HexLower[i] = c
    THEN (CHOOSE i \in 1..16 : HexLower[i] = c) - 1
    ELSE IF \E i \in 1..16 : HexUpper[i] = c
           THEN (CHOOSE i \in 1..16 : HexUpper[i] = c) - 1
           ELSE 0 - 1

LONG_MAX == 2147483647

\* strtol(s, NULL, 16) on the digits of s from index i on, acc so far
RECURSIVE StrtolDigits(_, _, _)
StrtolDigits(s, i, acc) ==
  IF i > Len(s) \/ HexVal(s[i]) < 0 THEN acc
  ELSE IF acc > (LONG_MAX - HexVal(s[i])) \div 16 THEN LONG_MAX
  ELSE StrtolDigits(s, i + 1, acc * 16 + HexVal(s[i]))

\* (int)strtol(s, NULL, 16): leading blanks, an optional sign, hex digits.
\* A negative overflow clamps one lower (LONG_MIN); the model clamps both ways.
Strtol16(s) ==
  LET RECURSIVE SkipBlank(_)
      SkipBlank(i) == IF i <= Len(s) /\ s[i] \in {" ", "\t"} THEN SkipBlank(i + 1) ELSE i
      b == SkipBlank(1)
      neg == b <= Len(s) /\ s[b] = "-"
      d == IF b <= Len(s) /\ s[b] \in {"-", "+"} THEN b + 1 ELSE b
      v == StrtolDigits(s, d, 0)
  IN  IF neg THEN 0 - v ELSE v

\* one chunk: size line, data, trailer
EncodeChunk(data, digits) == ToHex(Len(data), digits) \o <<CR, LF>> \o data \o <<CR, LF>>

\* the chunked framing of p cut into chunks of the sizes in split
RECURSIVE EncodeChunked(_, _, _)
EncodeChunked(p, split, digits) ==
  IF split = <<>> THEN <<"0", CR, LF, CR, LF>>
  ELSE EncodeChunk(SubSeq(p, 1, Head(split)), digits)
         \o EncodeChunked(SubSeq(p, Head(split) + 1, Len(p)), Tail(split), digits)

\* all ways to cut n bytes into non-empty chunks
RECURSIVE Splits(_)
Splits(n) ==
  IF n = 0 THEN {<<>>}
  ELSE UNION {{<<k>> \o r : r \in Splits(n - k)} : k \in 1..n}

\* longest payload whose every content and every split is enumerated
MaxLen == 2

PayloadBytes == {"0", CR, LF}

RECURSIVE SeqsUpTo(_, _)
SeqsUpTo(S, n) ==
  IF n = 0 THEN {<<>>}
  ELSE SeqsUpTo(S, n - 1) \cup {Append(q, x) : q \in SeqsUpTo(S, n - 1), x \in S}

\* a payload long enough for chunk sizes with a letter digit and two digits
LongPayload == <<"a", "1", CR, LF, "0", CR, LF, CR, LF, "f",
                 LF, "b", CR, "0", "0", LF, "z">>

LongSplits == {<<17>>, <<10, 7>>}

\* <<payload, split>> pairs the server may send
Transfers ==
  UNION {{<<p, sp>> : sp \in Splits(Len(p))} : p \in SeqsUpTo(PayloadBytes, MaxLen)}
    \cup {<<LongPayload, sp>> : sp \in LongSplits}

\* unifi_api.cpp:80
CHUNK_TIMEOUT == 60000

\* largest length passed to readBytes
MaxReq == 2

Min(a, b) == IF a < b THEN a ELSE b

\* what the actions of SpecChunk leave alone
exChunk == <<callVars, sessionVars, loginVars, connVars, topoVars, apiVars, ticks>>

\* fixed once the stream is constructed
fixedChunk == <<src, isChunked, timeout, payload>>

\* what no step of the decoder writes
decFrame == <<clock, avail, clientConnected, fixedChunk, exChunk>>

\* client.available()
Available == avail - pos

\* ---- the connection ----

\* more bytes of the response arrive: one byte, as many as the largest
\* request, or all the rest.  The decoder looks at the client only when it
\* wants a byte, so an arrival is taken when it has consumed what had arrived.
Arrive(k) ==
  /\ clientConnected
  /\ avail = pos
  /\ k \in {avail + 1, avail + MaxReq, Len(src)}
  /\ k > avail /\ k <= Len(src)
  /\ avail' = k
  /\ UNCHANGED <<clock, pc, pos, clientConnected, remainingInChunk, finished, needChunkSize,
                 caller, chunkLine, crlfCount, length, totalRead, ret, out, stalled,
                 fixedChunk, waitStart, exChunk>>

\* the connection closes; nothing more will arrive.  The decoder reads
\* client.connected() only in waitForData, when it has no unread byte.
Close ==
  /\ clientConnected
  /\ pc = "idle" \/ avail = pos
  /\ clientConnected' = FALSE
  /\ UNCHANGED <<clock, pc, pos, avail, remainingInChunk, finished, needChunkSize,
                 caller, chunkLine, crlfCount, length, totalRead, ret, out, stalled,
                 fixedChunk, waitStart, exChunk>>

\* 60 s pass between two calls: the stream's deadline goes by
DeadlinePasses ==
  /\ pc = "idle"
  /\ ~stalled
  /\ clock' = (clock + CHUNK_TIMEOUT + 1) % ClockMod
  /\ stalled' = TRUE
  /\ UNCHANGED <<pc, pos, avail, clientConnected, remainingInChunk, finished,
                 needChunkSize, caller, chunkLine, crlfCount, length, totalRead, ret,
                 out, fixedChunk, waitStart, exChunk>>

\* ---- readNextChunkSize (unifi_api.cpp:31-58) ----

\* unifi_api.cpp:23, 39, 62: start = millis() where a wait loop begins; each
\* position of the decoder but "rbLoop" is one wait loop
StartWait == waitStart' = IF pc' # pc THEN clock ELSE waitStart

\* the caller's path when readNextChunkSize returns false
RncsFalse ==
  /\ pc' = "idle"
  /\ ret' = CASE caller = "read" -> 0 - 1
              [] caller = "readBytes" -> totalRead
              [] OTHER -> 0
  /\ length' = 0
  /\ totalRead' = 0

\* the caller's path when readNextChunkSize returns true; rem: the new
\* remainingInChunk, av: client.available() then (available(), line 95)
RncsTrue(rem, av) ==
  /\ CASE caller = "read" -> pc' = "readData" /\ UNCHANGED ret
       [] caller = "readBytes" -> pc' = "rbData" /\ UNCHANGED ret
       [] OTHER -> pc' = "idle" /\ ret' = Min(rem, av)
  /\ UNCHANGED <<length, totalRead>>

\* unifi_api.cpp:32, 38: waitForData(5000) saw a byte
RncsWaitOk ==
  /\ pc = "rncsWait"
  /\ Available > 0
  /\ pc' = "rncsLine"
  /\ chunkLine' = <<>>
  /\ UNCHANGED <<pos, remainingInChunk, finished, needChunkSize, caller, crlfCount,
                 length, totalRead, ret, out, stalled, decFrame>>
  /\ StartWait

\* unifi_api.cpp:32-35: waitForData(5000) ended without a byte
RncsWaitFail ==
  /\ pc = "rncsWait"
  /\ Available = 0
  /\ finished' = TRUE
  /\ stalled' = TRUE
  /\ RncsFalse
  /\ UNCHANGED <<pos, remainingInChunk, needChunkSize, caller, chunkLine, crlfCount,
                 out, decFrame>>
  /\ StartWait

\* unifi_api.cpp:50-57 on the line collected so far; av: client.available()
RncsParse(line, av) ==
  /\ remainingInChunk' = Strtol16(line)
  /\ needChunkSize' = FALSE
  /\ IF Strtol16(line) = 0
       THEN finished' = TRUE /\ RncsFalse
       ELSE UNCHANGED finished /\ RncsTrue(Strtol16(line), av)

\* unifi_api.cpp:40-44: one character of the chunk-size line
RncsChar ==
  /\ pc = "rncsLine"
  /\ Available > 0
  /\ pos' = pos + 1
  /\ LET c == src[pos + 1]
     IN  IF c = LF
           THEN RncsParse(chunkLine, Available - 1) /\ chunkLine' = <<>>
           ELSE /\ chunkLine' = IF c # CR THEN Append(chunkLine, c) ELSE chunkLine
                /\ UNCHANGED <<pc, remainingInChunk, finished, needChunkSize, ret,
                               length, totalRead>>
  /\ UNCHANGED <<caller, crlfCount, out, stalled, decFrame>>
  /\ StartWait

\* unifi_api.cpp:40, 45-47: the 2000 ms of the line loop pass without a byte
RncsLineTimeout ==
  /\ pc = "rncsLine"
  /\ Available = 0
  /\ stalled' = TRUE
  /\ RncsParse(chunkLine, Available)
  /\ chunkLine' = <<>>
  /\ UNCHANGED <<pos, caller, crlfCount, out, decFrame>>
  /\ StartWait

\* ---- skipChunkTrailer (unifi_api.cpp:60-74) ----

\* unifi_api.cpp:73 and the return into read() or readBytes()
TrailerDone ==
  /\ needChunkSize' = TRUE
  /\ crlfCount' = 0
  /\ pc' = IF caller = "read" THEN "idle" ELSE "rbLoop"

\* unifi_api.cpp:64-68: one character after the chunk data
TrailerChar ==
  /\ pc = "trailer"
  /\ Available > 0
  /\ pos' = pos + 1
  /\ LET c == src[pos + 1]
         n == IF c \in {CR, LF} THEN crlfCount + 1 ELSE crlfCount
     IN  IF c \in {CR, LF} /\ n < 2
           THEN crlfCount' = n /\ UNCHANGED <<pc, needChunkSize>>
           ELSE TrailerDone
  /\ UNCHANGED <<remainingInChunk, finished, caller, chunkLine, length, totalRead, ret,
                 out, stalled, decFrame>>
  /\ StartWait

\* unifi_api.cpp:64, 69-71: the 1000 ms pass without a byte
TrailerTimeout ==
  /\ pc = "trailer"
  /\ Available = 0
  /\ stalled' = TRUE
  /\ TrailerDone
  /\ UNCHANGED <<pos, remainingInChunk, finished, caller, chunkLine, length,
                 totalRead, ret, out, decFrame>>
  /\ StartWait

\* ---- read() (unifi_api.cpp:98-125); ret: 1 for a byte (appended to out), -1 ----

\* finished || millis() > timeout
Expired == finished \/ clock > timeout

\* unifi_api.cpp:99-108
CallRead ==
  /\ pc = "idle"
  /\ caller' = "read"
  /\ IF Expired
       THEN pc' = "idle" /\ ret' = 0 - 1 /\ UNCHANGED <<pos, out>>
       ELSE IF ~isChunked
              THEN /\ pc' = "idle"
                   /\ IF Available > 0
                        THEN /\ pos' = pos + 1
                             /\ out' = Append(out, src[pos + 1])
                             /\ ret' = 1
                        ELSE ret' = 0 - 1 /\ UNCHANGED <<pos, out>>
              ELSE /\ pc' = IF needChunkSize THEN "rncsWait" ELSE "readData"
                   /\ UNCHANGED <<pos, out, ret>>
  /\ UNCHANGED <<remainingInChunk, finished, needChunkSize, chunkLine, crlfCount, length,
                 totalRead, stalled, decFrame>>
  /\ StartWait

\* unifi_api.cpp:110-124 with a byte at hand
ReadData ==
  /\ pc = "readData"
  /\ remainingInChunk <= 0 \/ Available > 0
  /\ IF remainingInChunk <= 0
       THEN /\ pc' = "idle" /\ ret' = 0 - 1
            /\ UNCHANGED <<pos, out, remainingInChunk, crlfCount>>
       ELSE /\ pos' = pos + 1
            /\ out' = Append(out, src[pos + 1])
            /\ ret' = 1
            /\ remainingInChunk' = remainingInChunk - 1
            /\ IF remainingInChunk - 1 = 0
                 THEN pc' = "trailer" /\ crlfCount' = 0
                 ELSE pc' = "idle" /\ UNCHANGED crlfCount
  /\ UNCHANGED <<finished, needChunkSize, caller, chunkLine, length, totalRead, stalled,
                 decFrame>>
  /\ StartWait

\* unifi_api.cpp:113-115: waitForData(2000) ended without a byte
ReadWaitFail ==
  /\ pc = "readData"
  /\ remainingInChunk > 0 /\ Available = 0
  /\ pc' = "idle"
  /\ ret' = 0 - 1
  /\ stalled' = TRUE
  /\ UNCHANGED <<pos, remainingInChunk, finished, needChunkSize, caller, chunkLine,
                 crlfCount, length, totalRead, out, decFrame>>
  /\ StartWait

\* ---- readBytes() (unifi_api.cpp:132-176); ret: totalRead ----

\* unifi_api.cpp:133
CallReadBytes(n) ==
  /\ pc = "idle"
  /\ caller' = "readBytes"
  /\ length' = n
  /\ totalRead' = 0
  /\ pc' = "rbLoop"
  /\ UNCHANGED <<pos, remainingInChunk, finished, needChunkSize, chunkLine, crlfCount,
                 ret, out, stalled, decFrame>>
  /\ StartWait

\* unifi_api.cpp:135-136, 146-148, 175
RbLoop ==
  /\ pc = "rbLoop"
  /\ IF totalRead < length /\ ~finished /\ clock < timeout
       THEN /\ pc' = IF ~isChunked THEN "rbRaw"
                     ELSE IF needChunkSize THEN "rncsWait" ELSE "rbData"
            /\ UNCHANGED ret
            /\ UNCHANGED <<length, totalRead>>
       ELSE pc' = "idle" /\ ret' = totalRead /\ length' = 0 /\ totalRead' = 0
  /\ UNCHANGED <<pos, remainingInChunk, finished, needChunkSize, caller, chunkLine,
                 crlfCount, out, stalled, decFrame>>
  /\ StartWait

\* unifi_api.cpp:150-168 with a byte at hand
RbData ==
  /\ pc = "rbData"
  /\ remainingInChunk <= 0 \/ Available > 0
  /\ IF remainingInChunk <= 0
       THEN /\ pc' = "idle" /\ ret' = totalRead /\ length' = 0 /\ totalRead' = 0
            /\ UNCHANGED <<pos, out, remainingInChunk, crlfCount>>
       ELSE LET toRead == Min(Min(remainingInChunk, length - totalRead), Available)
            IN  /\ pos' = pos + toRead
                /\ out' = out \o SubSeq(src, pos + 1, pos + toRead)
                /\ totalRead' = totalRead + toRead
                /\ remainingInChunk' = remainingInChunk - toRead
                /\ UNCHANGED <<ret, length>>
                /\ IF remainingInChunk - toRead = 0
                     THEN pc' = "trailer" /\ crlfCount' = 0
                     ELSE pc' = "rbLoop" /\ UNCHANGED crlfCount
  /\ UNCHANGED <<finished, needChunkSize, caller, chunkLine, stalled, decFrame>>
  /\ StartWait

\* unifi_api.cpp:138-143: pass-through; client.readBytes takes what has arrived
RbRaw ==
  /\ pc = "rbRaw"
  /\ Available > 0
  /\ LET bytesRead == Min(length - totalRead, Available)
     IN  /\ pos' = pos + bytesRead
         /\ out' = out \o SubSeq(src, pos + 1, pos + bytesRead)
         /\ totalRead' = totalRead + bytesRead
  /\ pc' = "rbLoop"
  /\ UNCHANGED <<remainingInChunk, finished, needChunkSize, caller, chunkLine, crlfCount,
                 length, ret, stalled, decFrame>>
  /\ StartWait

\* unifi_api.cpp:139, 154: waitForData(2000) ended without a byte
RbWaitFail ==
  /\ pc = "rbRaw" \/ (pc = "rbData" /\ remainingInChunk > 0)
  /\ Available = 0
  /\ pc' = "idle"
  /\ ret' = totalRead
  /\ length' = 0
  /\ totalRead' = 0
  /\ stalled' = TRUE
  /\ UNCHANGED <<pos, remainingInChunk, finished, needChunkSize, caller, chunkLine,
                 crlfCount, out, decFrame>>
  /\ StartWait

\* ---- available() (unifi_api.cpp:83-96); ret: the count returned ----
CallAvailable ==
  /\ pc = "idle"
  /\ caller' = "available"
  /\ IF Expired
       THEN pc' = "idle" /\ ret' = 0
       ELSE IF ~isChunked
              THEN pc' = "idle" /\ ret' = Available
              ELSE IF needChunkSize
                     THEN pc' = "rncsWait" /\ UNCHANGED ret
                     ELSE pc' = "idle" /\ ret' = Min(remainingInChunk, Available)
  /\ UNCHANGED <<pos, remainingInChunk, finished, needChunkSize, chunkLine, crlfCount,
                 length, totalRead, out, stalled, decFrame>>
  /\ StartWait

\* ---- the specification ----

\* bodies announced as chunked whose first chunk-size line is not the size
\* of a chunk: no hexadecimal digit, an empty line, a sign, and a zero-size
\* chunk with bytes sent after it.  None of them carries content.
BrokenFramings ==
  { <<"z", "z", CR, LF, "1", CR, LF, "a", CR, LF, "0", CR, LF, CR, LF>>,
    <<CR, LF, "1", CR, LF, "a", CR, LF, "0", CR, LF, CR, LF>>,
    <<"-", "1", CR, LF, "a", CR, LF, "0", CR, LF, CR, LF>>,
    <<"0", "0", CR, LF, CR, LF, "1", CR, LF, "a", CR, LF>> }

\* millis() when the stream is constructed: after boot, and CHUNK_TIMEOUT
\* before the counter wraps
ChunkStarts == {BootMs, ClockMod - CHUNK_TIMEOUT}

\* unifi_api.cpp:77-81 over a response body the server has encoded
InitChunk ==
  /\ InitCallIdle /\ InitSession /\ InitConnIdle /\ InitTopoIdle
  /\ InitApiIdle
  /\ pc = "idle"
  /\ clock \in ChunkStarts
  /\ timeout = (clock + CHUNK_TIMEOUT) % ClockMod
  /\ \/ \E t \in Transfers, digits \in {HexLower, HexUpper} :
          /\ payload = t[1]
          /\ \/ isChunked = TRUE /\ src = EncodeChunked(t[1], t[2], digits)
             \/ isChunked = FALSE /\ src = t[1]
     \/ /\ payload = <<>>
        /\ isChunked = TRUE
        /\ src \in BrokenFramings
  /\ pos = 0
  /\ avail = 0
  /\ clientConnected = TRUE
  /\ remainingInChunk = 0
  /\ finished = FALSE
  /\ needChunkSize = TRUE
  /\ caller = "none"
  /\ chunkLine = <<>>
  /\ crlfCount = 0
  /\ length = 0
  /\ totalRead = 0
  /\ ret = 0
  /\ out = <<>>
  /\ stalled = FALSE
  /\ waitStart = clock

NextChunk ==
  \/ \E k \in 1..Len(src) : Arrive(k)
  \/ Close
  \/ DeadlinePasses
  \/ RncsWaitOk
  \/ RncsWaitFail
  \/ RncsChar
  \/ RncsLineTimeout
  \/ TrailerChar
  \/ TrailerTimeout
  \/ CallRead
  \/ ReadData
  \/ ReadWaitFail
  \/ \E n \in 1..MaxReq : CallReadBytes(n)
  \/ RbLoop
  \/ RbData
  \/ RbRaw
  \/ RbWaitFail
  \/ CallAvailable

SpecChunk == InitChunk /\ [][NextChunk]_vars

\* ---- properties of SpecChunk ----

IsPrefix(a, b) == Len(a) <= Len(b) /\ a = SubSeq(b, 1, Len(a))

\* a call has returned its end-of-data value: read() -1, readBytes() 0
EndReported ==
  /\ pc = "idle"
  /\ \/ caller = "read" /\ ret = 0 - 1
     \/ caller = "readBytes" /\ ret = 0

\* the bytes returned so far are the payload's first bytes; the decoder ends
\* the stream, or a call reports end of data, only with the whole payload
\* returned
RoundTrip ==
  /\ IsPrefix(out, payload)
  /\ finished => out = payload
  /\ EndReported => out = payload

\* C3: for every payload and every split of it into chunks, reading the valid
\* chunked framing through the decoder (isChunked = true, no wait and no
\* deadline expiring) returns exactly the payload's bytes in order, none of
\* the framing, and then reports end of stream.
C3_ChunkedRoundTrip == isChunked /\ ~stalled => RoundTrip

\* the same for the streams whose deadline millis() + 60000 did not wrap
ChunkedRoundTripNoWrap ==
  isChunked /\ ~stalled /\ timeout >= CHUNK_TIMEOUT => RoundTrip

\* a two-chunk payload has been returned whole and the end reported
ChunkedRoundTripDone ==
  /\ isChunked /\ ~stalled /\ payload = LongPayload /\ Len(chunkLine) = 0
  /\ out = payload /\ finished /\ EndReported /\ pos < Len(src)

\* the line is the size of a chunk: hexadecimal digits and nothing else
HexLine(line) == line # <<>> /\ \A i \in 1..Len(line) : HexVal(line[i]) >= 0

RECURSIVE HexValue(_)
\* the number a line of hexadecimal digits writes (0 past 7 digits: no
\* framing here has a chunk that long)
HexValue(line) ==
  IF line = <<>> \/ Len(line) > 7 THEN 0
  ELSE 16 * HexValue(SubSeq(line, 1, Len(line) - 1)) + HexVal(line[Len(line)])

\* the decoder reads the line feed that ends a chunk-size line
EndOfSizeLine == pc = "rncsLine" /\ RncsChar /\ src[pos + 1] = LF

\* a call made with the decoder Finished reports the end and returns nothing
FinishedAbsorbing ==
  /\ [][finished => finished']_vars
  /\ [][finished /\ CallRead => pc' = "idle" /\ ret' = 0 - 1 /\ out' = out]_vars
  /\ [][finished /\ CallAvailable => pc' = "idle" /\ ret' = 0]_vars
  /\ [][finished /\ RbLoop /\ totalRead = 0
          => pc' = "idle" /\ ret' = 0 /\ out' = out]_vars
  /\ [][finished => pos' = pos]_vars

\* C15: in chunked mode, when the chunk-size line just read is zero or is
\* not a hexadecimal number, the decoder is Finished after the step; and
\* Finished is absorbing: the decoder stays Finished, takes no more bytes
\* from the source, read() returns -1, readBytes() returns 0 and
\* available() returns 0, whatever arrives later.
C15_DecoderTermination ==
  /\ [][isChunked /\ EndOfSizeLine /\ (~HexLine(chunkLine) \/ HexValue(chunkLine) = 0)
          => finished']_vars
  /\ FinishedAbsorbing

\* a zero-size chunk ended the stream, more bytes arrived, and a read()
\* made afterwards reported the end
FinishedThenMoreBytes ==
  /\ isChunked /\ finished /\ ~stalled
  /\ src \in BrokenFramings
  /\ avail = Len(src) /\ pos < avail
  /\ pc = "idle" /\ caller = "read" /\ ret = 0 - 1

\* the decoder itself stops on a stall (a call may return its end value
\* with the decoder not Finished)
StallStep ==
  \/ RncsWaitFail
  \/ RncsLineTimeout
  \/ ReadWaitFail
  \/ RbWaitFail

\* C16: in chunked mode a wait for a chunk-size line or for chunk data
\* that ends without a byte leaves the decoder Finished, and once such a
\* wait has ended no byte is returned as content any more.
C16_StallEndsStream ==
  /\ [][isChunked /\ StallStep => finished']_vars
  /\ [][isChunked /\ stalled => out' = out]_vars

\* the one stall that does end the stream: no byte of a chunk-size line
\* came within waitForData(5000)
StallBeforeSizeLineEndsStream ==
  [][isChunked /\ RncsWaitFail => finished']_vars

\* C17: in pass-through mode the bytes returned are the source's bytes in
\* order, and read() with no byte at hand on an open connection that has
\* more to deliver waits for it instead of returning the end value at
\* once, as readBytes() and the chunked read() do.
C17_PassThrough ==
  /\ [](~isChunked => out = SubSeq(src, 1, pos))
  /\ [][~isChunked /\ CallRead /\ ~Expired /\ Available = 0 /\ clientConnected
          /\ pos < Len(src) => pc' # "idle"]_vars

\* in pass-through mode the bytes returned are the source's first bytes,
\* and readBytes() reports the end only after a wait or with all returned
PassThroughBytes ==
  /\ ~isChunked => out = SubSeq(src, 1, pos)
  /\ ~isChunked /\ ~stalled /\ timeout >= CHUNK_TIMEOUT /\ EndReported
        /\ caller = "readBytes" => out = src

\* C36 (as claimed): whatever the source sends, malformed chunk-size lines
\* included, the remaining-bytes-in-chunk counter is never negative, and
\* content is returned only out of the bytes a chunk-size line declared:
\* a step that returns n content bytes finds at least n on the counter and
\* takes n off it.
C36_ChunkCounterSafe ==
  /\ [](remainingInChunk >= 0)
  /\ [][isChunked /\ out' # out
          => /\ Len(out') - Len(out) <= remainingInChunk
             /\ remainingInChunk' = remainingInChunk - (Len(out') - Len(out))]_vars

\* content is returned only out of the bytes counted for the chunk
ContentWithinChunk ==
  [][isChunked /\ out' # out
      => /\ Len(out') - Len(out) <= remainingInChunk
         /\ remainingInChunk' = remainingInChunk - (Len(out') - Len(out))]_vars

\* a chunk-size line with a minus sign has left the counter negative
NegativeCounter ==
  /\ isChunked /\ ~finished /\ ~needChunkSize
  /\ remainingInChunk < 0

\* available() has returned a negative number of bytes
NegativeAvailable ==
  /\ isChunked /\ pc = "idle" /\ caller = "available" /\ ret < 0

\* with a negative counter no byte is returned as content
NegativeCounterNoContent ==
  [][remainingInChunk < 0 => out' = out]_vars

(***************************************************************************)
(* SpecWait: the decoder with its wait loops run against the clock.  In    *)
(* SpecChunk a wait that ends without a byte is one step; here the loops   *)
(* of waitForData, readNextChunkSize and skipChunkTrailer turn, each turn  *)
(* a delay(1) compares millis() - start with the loop's limit, and the     *)
(* clock moves WaitStep ms per turn.                                       *)
(***************************************************************************)

\* ms the clock moves in one turn of a wait loop
WaitStep == 1000

\* the loops whose condition is waitForData's (unifi_api.cpp:24)
InWaitForData == pc \in {"rncsWait", "readData", "rbData", "rbRaw"}

\* the limit of the loop at pc: waitForData(5000) at line 32,
\* waitForData(2000) at 114, 139, 154, the 2000 of line 40, the 1000 of 64
MaxWait ==
  CASE pc = "rncsWait" -> 5000
    [] pc \in {"readData", "rbData", "rbRaw", "rncsLine"} -> 2000
    [] pc = "trailer" -> 1000
    [] OTHER -> 0

\* the loop's condition is false with no byte at hand: millis() - start
\* has reached the limit, or (waitForData) the client is not connected
WaitOver ==
  \/ Sub32(clock, waitStart) >= MaxWait
  \/ InWaitForData /\ ~clientConnected

\* a clock that stands still
Delay_Frozen ==
  /\ pc \in {"rncsWait", "readData", "rbData", "rbRaw", "rncsLine", "trailer"}
  /\ UNCHANGED vars

\* unifi_api.cpp:25, 46, 70: delay(1) in a loop whose condition holds
Delay ==
  /\ pc \in {"rncsWait", "readData", "rbData", "rbRaw", "rncsLine", "trailer"}
  /\ pc \in {"readData", "rbData"} => remainingInChunk > 0
  /\ Available = 0
  /\ ~WaitOver
  /\ clock' = (clock + WaitStep) % ClockMod
  /\ UNCHANGED <<pc, chunkVars, exChunk>>

\* the waits that end without a byte, when their loop's condition is false
WaitForSizeLineOver == WaitOver /\ RncsWaitFail
SizeLineOver == WaitOver /\ RncsLineTimeout
TrailerOver == WaitOver /\ TrailerTimeout
ReadWaitOver == WaitOver /\ ReadWaitFail
RbWaitOver == WaitOver /\ RbWaitFail

\* what the decoder does by itself once a call is made
DecoderStep ==
  \/ Delay
  \/ RncsWaitOk
  \/ WaitForSizeLineOver
  \/ RncsChar
  \/ SizeLineOver
  \/ TrailerChar
  \/ TrailerOver
  \/ ReadData
  \/ ReadWaitOver
  \/ RbLoop
  \/ RbData
  \/ RbRaw
  \/ RbWaitOver

\* ms between the first state and the stream's deadline, and the time
\* past the deadline during which calls are still made
WaitWindow == 4000

\* the deadlines (unifi_api.cpp:80): of a stream constructed at boot, and
\* one that falls on the last millisecond before millis() wraps
WaitDeadlines == {BootMs + CHUNK_TIMEOUT, ClockMod - 1}

\* the bodies, in the framings of SpecChunk: nothing, two bytes in one
\* chunk and in two, and the broken framings
WaitTransfers == {t \in Transfers : t[1] \in {<<>>, <<"0", LF>>}}

\* a stream constructed as in InitChunk, WaitWindow before its deadline,
\* nothing read yet
InitWait ==
  /\ InitCallIdle /\ InitSession /\ InitConnIdle /\ InitTopoIdle
  /\ InitApiIdle
  /\ pc = "idle"
  /\ timeout \in WaitDeadlines
  /\ clock = Sub32(timeout, WaitWindow)
  /\ \/ \E t \in WaitTransfers :
          /\ payload = t[1]
          /\ \/ isChunked = TRUE /\ src = EncodeChunked(t[1], t[2], HexLower)
             \/ isChunked = FALSE /\ src = t[1]
     \/ /\ payload = <<>>
        /\ isChunked = TRUE
        /\ src \in BrokenFramings
  /\ pos = 0
  /\ avail = 0
  /\ clientConnected = TRUE
  /\ remainingInChunk = 0
  /\ finished = FALSE
  /\ needChunkSize = TRUE
  /\ caller = "none"
  /\ chunkLine = <<>>
  /\ crlfCount = 0
  /\ length = 0
  /\ totalRead = 0
  /\ ret = 0
  /\ out = <<>>
  /\ stalled = FALSE
  /\ waitStart = clock

\* calls are made from the first state until WaitWindow past the deadline
CallsOpen == Sub32(clock, Sub32(timeout, WaitWindow)) <= 2 * WaitWindow

NextWait ==
  \/ \E k \in 1..Len(src) : Arrive(k)
  \/ Close
  \/ CallsOpen /\ CallRead
  \/ \E n \in 1..MaxReq : CallsOpen /\ CallReadBytes(n)
  \/ CallsOpen /\ CallAvailable
  \/ DecoderStep

\* the task that made the call keeps running and millis() keeps counting
SpecWait == InitWait /\ [][NextWait]_vars /\ WF_vars(DecoderStep)

\* ---- properties of SpecWait ----

\* C18: every call of read(), readBytes() and available() returns: a
\* decoder that has been entered is back at its caller after finitely many
\* steps, whatever arrives or fails to arrive.
C18_CallsReturn == (pc # "idle") ~> (pc = "idle")

\* a readBytes() that waited out a stall on an open connection has returned
C18_Witness ==
  /\ pc = "idle" /\ caller = "readBytes"
  /\ clientConnected /\ avail < Len(src)
  /\ stalled /\ ~finished
  /\ Sub32(clock, Sub32(timeout, WaitWindow)) >= 2000

(***************************************************************************)
(* SpecLogin: unifiLogin() on the texts readHttpResponse() returns.        *)
(*                                                                         *)
(* A response text is a sequence of pieces: CR, LF, header names, the      *)
(* separators ": ", "=" and ";", and values.  The searches of the source   *)
(* (String::indexOf, substring, toLowerCase) are done on these sequences   *)
(* piece by piece.  The controller's answer is described by a record       *)
(* (which headers it carries) and Render turns the record into the text.   *)
(***************************************************************************)

\* String::indexOf(find, from): first index >= from (0-based), or -1
RECURSIVE IndexOf(_, _, _)
IndexOf(text, find, from) ==
  IF from + Len(find) > Len(text) THEN 0 - 1
  ELSE IF \A k \in 1..Len(find) : text[from + k] = find[k] THEN from
  ELSE IndexOf(text, find, from + 1)

\* String::substring(from, to), 0-based, to exclusive
Substring(text, from, to) == SubSeq(text, from + 1, to)

\* String::toLowerCase on one piece
Lower(piece) ==
  CASE piece = "X-Csrf-Token" -> "x-csrf-token"
    [] piece = "X-Updated-Csrf-Token" -> "x-updated-csrf-token"
    [] piece = "Set-Cookie" -> "set-cookie"
    [] piece = "Content-Type" -> "content-type"
    [] piece = "HTTP/1.1 200 OK" -> "http/1.1 200 ok"
    [] piece = "TOKEN" -> "token"
    [] piece = "CSRF_" -> "csrf_"
    [] piece = " Path=/" -> " path=/"
    [] piece = " HttpOnly" -> " httponly"
    [] OTHER -> piece

\* String::toLowerCase
ToLowerCase(text) == [i \in 1..Len(text) |-> Lower(text[i])]

\* unifi_api.cpp:747-764
extractHeader(response, headerName) ==
  LET search == <<CR, LF, headerName, ": ">>
      exact == IndexOf(response, search, 0)
      idx == IF exact < 0
               THEN IndexOf(ToLowerCase(response), ToLowerCase(search), 0)
               ELSE exact
      start == idx + Len(search)
      end == IndexOf(response, <<CR, LF>>, start)
  IN  IF idx < 0 \/ end < 0 THEN <<>> ELSE Substring(response, start, end)

\* unifi_api.cpp:766-777
extractCookie(response, cookieName) ==
  LET search == <<cookieName, "=">>
      idx == IndexOf(response, search, 0)
      start == idx + Len(search)
      semi == IndexOf(response, <<";">>, start)
      end == IF semi < 0 THEN IndexOf(response, <<CR, LF>>, start) ELSE semi
  IN  IF idx < 0 \/ end < 0 THEN <<>> ELSE Substring(response, start, end)

\* ---- the controller's answers ----

None == <<>>

\* one header line, preceded by the CRLF that ends the line before it
HeaderLine(name, value, lower) ==
  <<CR, LF, IF lower THEN Lower(name) ELSE name, ": ">> \o value

\* the Set-Cookie value of a cookie description [name, value, attrs]
CookieText(c) ==
  c.name \o <<"=">> \o c.value
    \o (IF c.attrs THEN <<";", " Path=/", ";", " HttpOnly">> ELSE <<>>)

ContentTypeLine(lower) ==
  HeaderLine("Content-Type", <<"application/json", ";", " charset=utf-8">>, lower)

\* the text of a response described by r:
\*   csrf, updated : value of X-Csrf-Token / X-Updated-Csrf-Token, or None
\*   cookies       : the Set-Cookie headers, in order
\*   ctype         : "none", or the Content-Type header "before" / "after" the cookies,
\*                   or "silent": no byte comes and readHttpResponse()
\*                   returns "" after its 10 s (unifi_api.cpp:720-736)
\*   lower         : header names sent in lower case
Render(r) ==
  LET RECURSIVE CookieLines(_)
      CookieLines(cs) ==
        IF cs = <<>> THEN <<>>
        ELSE HeaderLine("Set-Cookie", CookieText(Head(cs)), r.lower) \o CookieLines(Tail(cs))
  IN  IF r.ctype = "silent" THEN <<>> ELSE
      <<"HTTP/1.1 200 OK">>
        \o (IF r.ctype = "before" THEN ContentTypeLine(r.lower) ELSE <<>>)
        \o (IF r.csrf # None THEN HeaderLine("X-Csrf-Token", r.csrf, r.lower) ELSE <<>>)
        \o (IF r.updated # None
              THEN HeaderLine("X-Updated-Csrf-Token", r.updated, r.lower) ELSE <<>>)
        \o CookieLines(r.cookies)
        \o (IF r.ctype = "after" THEN ContentTypeLine(r.lower) ELSE <<>>)
        \o <<CR, LF, CR, LF, "{}">>

TokenCookie(attrs) == [name |-> <<"TOKEN">>, value |-> <<"abc123">>, attrs |-> attrs]

\* a cookie of another name that ends in TOKEN
OtherCookie == [name |-> <<"CSRF_", "TOKEN">>, value |-> <<"zzz">>, attrs |-> TRUE]

CookieSets ==
  {<<>>, <<TokenCookie(TRUE)>>, <<TokenCookie(FALSE)>>, <<OtherCookie>>,
   <<OtherCookie, TokenCookie(TRUE)>>}

GetResponses ==
  [csrf : {None, <<"tok0">>}, updated : {None}, cookies : {<<>>},
   ctype : {"none"}, lower : {FALSE}]

PostResponses ==
  [csrf : {None, <<"ghi789">>}, updated : {None, <<"def456">>}, cookies : CookieSets,
   ctype : {"none", "before", "after"}, lower : BOOLEAN]

\* appConfig.unifiHost / unifiUsername / unifiPassword
Configs ==
  {[host |-> "unifi", username |-> "admin", password |-> "pw"],
   [host |-> "unifi", username |-> "admin", password |-> ""],
   [host |-> "", username |-> "admin", password |-> "pw"]}

\* the record of a request that was not sent
NotAsked == [csrf |-> None, updated |-> None, cookies |-> <<>>, ctype |-> "none",
             lower |-> FALSE]

\* the server accepts the connection and sends nothing
NoResponse == [csrf |-> None, updated |-> None, cookies |-> <<>>, ctype |-> "silent",
               lower |-> FALSE]

\* one call of unifiLogin(): the configuration, whether the two connects
\* succeed, and the answers to the requests that are sent
LoginInputs ==
  [cfg : Configs, connect1 : {FALSE}, connect2 : {FALSE}, get : {NotAsked},
   post : {NotAsked}]
    \cup [cfg : {c \in Configs : c.password # "" /\ c.host # ""}, connect1 : {TRUE},
          connect2 : {FALSE}, get : GetResponses, post : {NotAsked}]
    \cup [cfg : {c \in Configs : c.password # "" /\ c.host # ""}, connect1 : {TRUE},
          connect2 : {TRUE}, get : GetResponses, post : PostResponses \cup {NoResponse}]

\* config_manager.cpp:368-372
hasUnifiCredentials(cfg) == cfg.host # "" /\ cfg.username # "" /\ cfg.password # ""

\* the session after a return of unifiLogin() and the value returned
\* ("true" / "false")
LoginResult(csrf, cookie, uid, uname, logged, err, r) ==
  [csrfToken |-> csrf, sessionCookie |-> cookie, userId |-> uid, userName |-> uname,
   isLoggedIn |-> logged, unifiLastError |-> err, ret |-> r]

\* unifi_api.cpp:267-291: newToken and cookie taken from the POST response
LoginStore(in, csrf1, updated, fallback, cookie) ==
  LET newToken == IF Len(updated) = 0 THEN fallback ELSE updated
      csrf2 == IF Len(newToken) > 0 THEN newToken ELSE csrf1
  IN  IF Len(cookie) > 0
        THEN LoginResult(csrf2, cookie, in.cfg.username, in.cfg.username, TRUE, "", "true")
        ELSE LoginResult(csrf2, cookie, userId, userName, isLoggedIn, "Login failed",
                         "false")

\* unifi_api.cpp:265-277 on the text of the POST response
LoginPost(in, csrf1, postText) ==
  LoginStore(in, csrf1, extractHeader(postText, "X-Updated-Csrf-Token"),
             extractHeader(postText, "X-Csrf-Token"), extractCookie(postText, "TOKEN"))

\* unifi_api.cpp:232-265 with csrfToken already assigned from the GET response
LoginStep2(in, csrf1) ==
  IF ~in.connect2
    THEN LoginResult(csrf1, sessionCookie, userId, userName, isLoggedIn,
                     "Reconnection failed", "false")
    ELSE LoginPost(in, csrf1, Render(in.post))

\* unifi_api.cpp:206-292 on the input in, from the session held in the variables
unifiLogin(in) ==
  IF ~hasUnifiCredentials(in.cfg)
    THEN LoginResult(csrfToken, sessionCookie, userId, userName, isLoggedIn, "", "false")
  ELSE IF ~in.connect1
    THEN LoginResult(csrfToken, sessionCookie, userId, userName, isLoggedIn,
                     "Connection failed", "false")
  ELSE LoginStep2(in, extractHeader(Render(in.get), "X-Csrf-Token"))

\* what the actions of SpecLogin leave alone
exLogin == <<clock, pc, callVars, connVars, chunkVars, topoVars, apiCall, ticks>>

\* loop() (main.cpp:152) or a web handler (webserver.cpp:468, 481) calls unifiLogin()
Login(in) ==
  /\ \E res \in {unifiLogin(in)} :
         /\ csrfToken' = res.csrfToken
         /\ sessionCookie' = res.sessionCookie
         /\ userId' = res.userId
         /\ userName' = res.userName
         /\ isLoggedIn' = res.isLoggedIn
         /\ unifiLastError' = res.unifiLastError
         /\ loginRet' = res.ret
  /\ loginIn' = in
  /\ rejected' = FALSE
  /\ UNCHANGED exLogin

ForceRelogin_ClearsSession ==
  /\ isLoggedIn
  /\ isLoggedIn' = FALSE
  /\ sessionCookie' = <<>>
  /\ loginIn' = NoLogin
  /\ loginRet' = NoLogin
  /\ UNCHANGED <<csrfToken, userId, userName, unifiLastError, rejected, exLogin>>

\* the session is dropped: network loss (network.cpp:114-116) or the
\* reconnect policy's escalation (main.cpp:175-178)
ForceRelogin ==
  /\ isLoggedIn
  /\ isLoggedIn' = FALSE
  /\ loginIn' = NoLogin
  /\ loginRet' = NoLogin
  /\ UNCHANGED <<csrfToken, sessionCookie, userId, userName, unifiLastError, rejected,
                 exLogin>>

InitLogin ==
  /\ clock = BootMs
  /\ pc = "top"
  /\ InitCallIdle /\ InitSession /\ InitConnIdle /\ InitChunkIdle /\ InitTopoIdle
  /\ InitApiIdle

NextLogin ==
  \/ \E in \in LoginInputs : Login(in)
  \/ ForceRelogin

SpecLogin == InitLogin /\ [][NextLogin]_vars

\* ---- properties of SpecLogin ----

\* the POST response of the last login carries a cookie named TOKEN
CarriesTokenCookie(in) == \E i \in 1..Len(in.post.cookies) : in.post.cookies[i].name = <<"TOKEN">>

\* the value of that cookie
TokenCookieValue(in) ==
  LET i == CHOOSE j \in 1..Len(in.post.cookies) : in.post.cookies[j].name = <<"TOKEN">>
  IN  in.post.cookies[i].value

\* the last login got as far as receiving its POST response
PostAnswered(in) == hasUnifiCredentials(in.cfg) /\ in.connect1 /\ in.connect2

\* the CSRF token the login should store
ExpectedCsrf(in) ==
  IF in.post.updated # None THEN in.post.updated
  ELSE IF in.post.csrf # None THEN in.post.csrf
  ELSE in.get.csrf

\* what a successful login leaves in the session
LoginSuccessState(in) ==
  /\ isLoggedIn
  /\ sessionCookie = TokenCookieValue(in)
  /\ csrfToken = ExpectedCsrf(in)
  /\ userId = in.cfg.username /\ userName = in.cfg.username
  /\ unifiLastError = ""

\* the state is the one a unifiLogin() call has just returned into
AfterLogin == loginRet # NoLogin

\* C4: unifiLogin() returns true exactly when the POST response carries a
\* cookie named TOKEN; on success isLoggedIn is true, sessionCookie is that
\* cookie's value, csrfToken is the POST response's X-Updated-Csrf-Token if
\* present, else its X-Csrf-Token, else the token of the initial GET,
\* userId / userName are the configured username and unifiLastError is empty.
C4_LoginSuccess ==
  AfterLogin =>
    /\ loginRet = "true" <=> (PostAnswered(loginIn) /\ CarriesTokenCookie(loginIn))
    /\ loginRet = "true" /\ CarriesTokenCookie(loginIn) => LoginSuccessState(loginIn)

\* the answers in which the only cookie is TOKEN and it has attributes after
\* its value, so that "TOKEN=" occurs once and a ';' ends the value
PlainTokenAnswer(in) ==
  in.post.cookies \in {<<>>, <<TokenCookie(TRUE)>>}

\* the same statement for those answers
LoginSuccessPlain == AfterLogin /\ PlainTokenAnswer(loginIn) => C4_LoginSuccess

\* the spec's example: X-Csrf-Token on GET, TOKEN=abc123 and
\* X-Updated-Csrf-Token: def456 on POST
LoginSuccessExample ==
  /\ loginRet = "true" /\ isLoggedIn
  /\ sessionCookie = <<"abc123">> /\ csrfToken = <<"def456">>
  /\ loginIn.get.csrf = <<"tok0">> /\ userId = "admin"

\* the diagnostics of a connection that failed (unifi_api.cpp:219, 237)
ConnectionFailed == {"Connection failed", "Reconnection failed"}

\* the diagnostic of rejected credentials (unifi_api.cpp:290)
InvalidCredentials == "Login failed"

\* C19: a unifiLogin() with credentials whose first or second connect fails
\* returns false with a connection-failed diagnostic; one whose POST
\* response arrived without a cookie named TOKEN returns false with the
\* login-failed diagnostic; one whose POST got no response before the read
\* timeout returns false with a connection-failed diagnostic.
C19_LoginFailureClassification ==
  AfterLogin /\ hasUnifiCredentials(loginIn.cfg) =>
    /\ ~loginIn.connect1 \/ ~loginIn.connect2
         => loginRet = "false" /\ unifiLastError \in ConnectionFailed
    /\ PostAnswered(loginIn) /\ loginIn.post # NoResponse /\ ~CarriesTokenCookie(loginIn)
         => loginRet = "false" /\ unifiLastError = InvalidCredentials
    /\ PostAnswered(loginIn) /\ loginIn.post = NoResponse
         => loginRet = "false" /\ unifiLastError \in ConnectionFailed

\* the same statement without its last case and for answers whose only
\* cookie is TOKEN
LoginFailureClassifiedPlain ==
  AfterLogin /\ hasUnifiCredentials(loginIn.cfg) /\ PlainTokenAnswer(loginIn) =>
    /\ ~loginIn.connect1 \/ ~loginIn.connect2
         => loginRet = "false" /\ unifiLastError \in ConnectionFailed
    /\ PostAnswered(loginIn) /\ loginIn.post # NoResponse /\ ~CarriesTokenCookie(loginIn)
         => loginRet = "false" /\ unifiLastError = InvalidCredentials

\* a login whose POST got no response has returned
LoginUnanswered ==
  /\ AfterLogin /\ PostAnswered(loginIn) /\ loginIn.post = NoResponse
  /\ loginRet = "false" /\ unifiLastError = InvalidCredentials

\* C27 (as claimed): after a call of unifiLogin() has returned,
\* unifiLastError is empty if it returned true and is a non-empty
\* diagnostic if it returned false, missing credentials included.
C27_LastErrorAfterLogin ==
  AfterLogin =>
    /\ loginRet = "true" => unifiLastError = ""
    /\ loginRet = "false" => unifiLastError # ""

\* the same statement for the logins that have credentials
LastErrorWithCredentials ==
  AfterLogin /\ hasUnifiCredentials(loginIn.cfg) => C27_LastErrorAfterLogin

\* a login without credentials has returned false and left no diagnostic
NoCredentialsNoDiagnostic ==
  /\ AfterLogin /\ ~hasUnifiCredentials(loginIn.cfg)
  /\ loginRet = "false" /\ unifiLastError = ""

RECURSIVE UpToTerminator(_)
\* the pieces of text before its first ';' or CR LF
UpToTerminator(text) ==
  IF text = <<>> \/ Head(text) = ";" THEN <<>>
  ELSE IF Len(text) >= 2 /\ text[1] = CR /\ text[2] = LF THEN <<>>
  ELSE <<Head(text)>> \o UpToTerminator(Tail(text))

\* the text of response after the first occurrence of name and '='
AfterName(response, name) ==
  LET idx == CHOOSE i \in 0..Len(response) :
               /\ i + 2 <= Len(response) => response[i + 1] = name /\ response[i + 2] = "="
               /\ \A j \in 0..(i - 1) :
                    ~(j + 2 <= Len(response) /\ response[j + 1] = name
                                           /\ response[j + 2] = "=")
               /\ i + 2 > Len(response) => i = Len(response)
  IN  SubSeq(response, idx + 3, Len(response))

\* C28 (as claimed): the cookie stored from a POST response is the text
\* after the first "TOKEN=" up to the first ';' or CR LF, whichever comes
\* first, and contains no ';', CR or LF.
C28_CookieTermination ==
  AfterLogin /\ PostAnswered(loginIn) =>
    /\ sessionCookie = UpToTerminator(AfterName(Render(loginIn.post), "TOKEN"))
    /\ \A i \in 1..Len(sessionCookie) : sessionCookie[i] \notin {";", CR, LF}

\* the same statement for the responses in which a ';' follows the value
\* before the end of its line, or no ';' follows it at all
CookieTerminationPlain ==
  AfterLogin /\ PostAnswered(loginIn)
    /\ ~(<<TokenCookie(FALSE)>> = loginIn.post.cookies /\ loginIn.post.ctype = "after")
    => C28_CookieTermination

\* a Set-Cookie line without ';' followed by a Content-Type header with ';':
\* the stored cookie runs over the end of the line
CookieRunsOverLineEnd ==
  /\ AfterLogin /\ loginRet = "true"
  /\ loginIn.post.cookies = <<TokenCookie(FALSE)>> /\ loginIn.post.ctype = "after"
  /\ Len(sessionCookie) > 1 /\ sessionCookie[2] = CR

\* C30 (as claimed): whenever isLoggedIn is true the stored session cookie
\* is not empty, after any sequence of logins and forced re-logins.
C30_LoggedInHasCookie == isLoggedIn => sessionCookie # <<>>

\* a login made while logged in has failed and left the session marked
\* logged in with an empty cookie
LoggedInEmptyCookie ==
  /\ AfterLogin /\ loginRet = "false"
  /\ isLoggedIn /\ sessionCookie = <<>>

(***************************************************************************)
(* SpecTopo: unifiGetTopology() and fetchTopologyStreaming().              *)
(*                                                                         *)
(* A JSON object is a function from its keys to values, an array is a      *)
(* sequence.  Texts that the code only copies are strings; device_type,    *)
(* which it searches with strstr, is a sequence of characters.             *)
(* deserializeJson with the filter of lines 456-462 is modelled by what    *)
(* ArduinoJson documents for it: members not named by the filter are       *)
(* dropped, at every level.                                                *)
(***************************************************************************)

\* device_type values
TypeG3Mini == <<"U", "A", "-", "G", "3", "-", "M", "i", "n", "i">>

TypeG2Pro == <<"U", "A", "-", "G", "2", "-", "P", "r", "o">>

TypeHub == <<"U", "A", "-", "H", "u", "b">>

TypeLowerG3 == <<"u", "a", "-", "g", "3">>

TypeReaderLite == <<"U", "A", "-", "R", "e", "a", "d", "e", "r", "-", "L">>

TypeUpperReader == <<"R", "E", "A", "D", "E", "R">>

TypePrefixOnly == <<"U", "A", "-", "G">>

DeviceTypes == {TypeG3Mini, TypeG2Pro, TypeHub, TypeLowerG3, TypeReaderLite,
                TypeUpperReader, TypePrefixOnly, <<>>}

\* a device entry as the controller sends it, with members the filter drops
Device(type, id) ==
  [device_type |-> type, unique_id |-> id, name |-> "dev-" \o id, mac |-> "mac-" \o id,
   firmware |-> "1.2.3", location |-> "elsewhere", id |-> "row-17"]

\* the entries that can stand at one place of the document: every type with
\* the id, an empty id, no unique_id member, no device_type member
SlotDevices(id) ==
  {Device(t, id) : t \in DeviceTypes}
    \cup {Device(TypeG3Mini, ""), Device(TypeHub, "")}
    \cup {[device_type |-> TypeG3Mini, name |-> "no-id", mac |-> "mac-0"],
          [unique_id |-> id, name |-> "no-type"]}

\* a place of the document left empty
NoDevice == [absent |-> TRUE]

Slot(id) == SlotDevices(id) \cup {NoDevice}

Present(ds) == SelectSeq(ds, LAMBDA d : d # NoDevice)

\* a topology document: two sites, floors with and without a name, doors
\* with and without a name, two device groups in one door, an empty group;
\* d1, d2 share a group, d3 stands in another site
TopologyDoc(d1, d2, d3) ==
  [code |-> "SUCCESS",
   data |-> <<
     [name |-> "site-1", unique_id |-> "s1",
      devices |-> <<Device(TypeG3Mini, "loose")>>,
      floors |-> <<
        [name |-> "Ground", unique_id |-> "f1",
         doors |-> <<
           [name |-> "Front", unique_id |-> "d1",
            device_groups |-> <<Present(<<d1, d2>>), <<>>>>],
           [name |-> "", device_groups |-> <<>>] >>] >>],
     [name |-> "site-2",
      floors |-> <<
        [name |-> "", doors |-> <<[name |-> "Back",
                                    device_groups |-> <<Present(<<d3>>)>>]>>],
        [name |-> "Roof"] >>] >>]

\* documents without the expected members
OddDocs == {[code |-> "SUCCESS"], [data |-> <<>>], [data |-> <<[name |-> "site"]>>]}

\* number of places of TopologyDoc that are filled from Slot
MaxSlots == 2

TopologyDocs ==
  {TopologyDoc(d1, d2, d3) :
     d1 \in Slot("r1"),
     d2 \in IF MaxSlots >= 2 THEN Slot("r2") ELSE {NoDevice},
     d3 \in IF MaxSlots >= 3 THEN Slot("r3") ELSE {Device(TypeG2Pro, "r3")}}
    \cup OddDocs

\* ---- ArduinoJson ----

\* obj[key] | dflt
Member(obj, key, dflt) == IF key \in DOMAIN obj THEN obj[key] ELSE dflt

\* an object reduced to the members the filter names
Keep(obj, keys) == [k \in (DOMAIN obj) \cap keys |-> obj[k]]

\* unifi_api.cpp:459-462
FilterDevice(d) == Keep(d, {"device_type", "unique_id", "name", "mac"})

FilterGroup(g) == [i \in 1..Len(g) |-> FilterDevice(g[i])]

\* unifi_api.cpp:458-459
FilterDoor(o) ==
  LET k == Keep(o, {"name", "device_groups"})
  IN  [m \in DOMAIN k |->
         IF m = "device_groups"
         THEN [i \in 1..Len(k[m]) |-> FilterGroup(k[m][i])]
         ELSE k[m]]

\* unifi_api.cpp:457-458
FilterFloor(o) ==
  LET k == Keep(o, {"name", "doors"})
  IN  [m \in DOMAIN k |->
         IF m = "doors" THEN [i \in 1..Len(k[m]) |-> FilterDoor(k[m][i])] ELSE k[m]]

FilterSite(o) ==
  LET k == Keep(o, {"floors"})
  IN  [m \in DOMAIN k |->
         IF m = "floors" THEN [i \in 1..Len(k[m]) |-> FilterFloor(k[m][i])] ELSE k[m]]

\* unifi_api.cpp:456-477: the document deserializeJson leaves in inputDoc
FilterDoc(doc) ==
  LET k == Keep(doc, {"data"})
  IN  [m \in DOMAIN k |-> [i \in 1..Len(k[m]) |-> FilterSite(k[m][i])]]

\* unifi_api.cpp:455-462: the filter document, one element standing for
\* every element of an array
filter ==
  [data |-> <<
     [floors |-> <<
        [name |-> TRUE,
         doors |-> <<
           [name |-> TRUE,
            device_groups |-> <<
              << [device_type |-> TRUE, unique_id |-> TRUE, name |-> TRUE,
                  mac |-> TRUE] >> >>] >>] >>] >>]

RECURSIVE SumSeq(_)
SumSeq(ns) == IF ns = <<>> THEN 0 ELSE Head(ns) + SumSeq(Tail(ns))

\* the slots a JsonDocument allocates for a document of the filter's shape:
\* one for every member of an object and one for every element of an array
GroupSlots(g) == SumSeq([i \in 1..Len(g) |-> 1 + Cardinality(DOMAIN g[i])])

DoorSlots(o) ==
  LET groups == Member(o, "device_groups", <<>>)
  IN  Cardinality(DOMAIN o)
        + SumSeq([i \in 1..Len(groups) |-> 1 + GroupSlots(groups[i])])

FloorSlots(o) ==
  LET doors == Member(o, "doors", <<>>)
  IN  Cardinality(DOMAIN o) + SumSeq([i \in 1..Len(doors) |-> 1 + DoorSlots(doors[i])])

SiteSlots(o) ==
  LET floors == Member(o, "floors", <<>>)
  IN  Cardinality(DOMAIN o)
        + SumSeq([i \in 1..Len(floors) |-> 1 + FloorSlots(floors[i])])

DocSlots(doc) ==
  LET sites == Member(doc, "data", <<>>)
  IN  Cardinality(DOMAIN doc) + SumSeq([i \in 1..Len(sites) |-> 1 + SiteSlots(sites[i])])

\* unifi_api.cpp:472-478: what inputDoc holds when deserializeJson returns
Footprint(doc) == DocSlots(FilterDoc(doc))

\* ---- fetchTopologyStreaming: reader loop ----

RECURSIVE Concat(_)
\* the arrays of an array, joined in order
Concat(arrs) == IF arrs = <<>> THEN <<>> ELSE Head(arrs) \o Concat(Tail(arrs))

Chars_UA_G2 == <<"U", "A", "-", "G", "2">>

Chars_UA_G3 == <<"U", "A", "-", "G", "3">>

Chars_Reader == <<"R", "e", "a", "d", "e", "r">>

\* strstr(text, find) != nullptr
StrStr(text, find) == IndexOf(text, find, 0) >= 0

isReader_G3Only(deviceType) == StrStr(deviceType, Chars_UA_G3)

\* unifi_api.cpp:532-534
isReader(deviceType) ==
  \/ StrStr(deviceType, Chars_UA_G2)
  \/ StrStr(deviceType, Chars_UA_G3)
  \/ StrStr(deviceType, Chars_Reader)

\* unifi_api.cpp:538-542
Location(floorName, doorName) ==
  IF doorName # ""
  THEN (IF floorName # "" THEN floorName \o " / " \o doorName ELSE doorName)
  ELSE floorName

\* unifi_api.cpp:521-550: what one device entry adds to readers
DeviceReaders(device, floorName, doorName) ==
  LET deviceType == Member(device, "device_type", <<>>)
      deviceId   == Member(device, "unique_id", "")
  IN  IF deviceId = "" THEN <<>>
      ELSE IF isReader(deviceType)
      THEN << [id |-> deviceId, name |-> Member(device, "name", ""),
               mac |-> Member(device, "mac", ""), type |-> deviceType,
               location |-> Location(floorName, doorName)] >>
      ELSE <<>>

RECURSIVE Reverse(_)
Reverse(arr) == IF arr = <<>> THEN <<>> ELSE Append(Reverse(Tail(arr)), Head(arr))

GroupReaders_Reversed(group, floorName, doorName) ==
  LET rev == Reverse(group)
  IN  Concat([i \in 1..Len(rev) |-> DeviceReaders(rev[i], floorName, doorName)])

\* unifi_api.cpp:519-520
GroupReaders(group, floorName, doorName) ==
  Concat([i \in 1..Len(group) |-> DeviceReaders(group[i], floorName, doorName)])

\* unifi_api.cpp:515-520
DoorReaders(door, floorName) ==
  LET doorName     == Member(door, "name", "")
      deviceGroups == Member(door, "device_groups", <<>>)
  IN  Concat([i \in 1..Len(deviceGroups) |->
                GroupReaders(deviceGroups[i], floorName, doorName)])

\* unifi_api.cpp:510-516
FloorReaders(floor) ==
  LET floorName == Member(floor, "name", "")
      doors     == Member(floor, "doors", <<>>)
  IN  Concat([i \in 1..Len(doors) |-> DoorReaders(doors[i], floorName)])

\* unifi_api.cpp:508-510
SiteReaders(site) ==
  LET floors == Member(site, "floors", <<>>)
  IN  Concat([i \in 1..Len(floors) |-> FloorReaders(floors[i])])

\* unifi_api.cpp:501-557: outputDoc built from the filtered inputDoc
BuildOutput(inputDoc) ==
  LET dataArray == Member(inputDoc, "data", <<>>)
  IN  [success |-> TRUE,
       readers |-> Concat([i \in 1..Len(dataArray) |-> SiteReaders(dataArray[i])])]

\* ---- fetchTopologyStreaming: request and response ----

RECURSIVE Atol(_, _)
\* String::toInt(): the leading decimal digits of text, read after acc
Atol(text, acc) ==
  IF text = <<>> \/ Head(text) \notin {"0", "1", "2", "3", "4", "5", "6", "7", "8", "9"}
  THEN acc
  ELSE Atol(Tail(text), acc * 10 + HexVal(Head(text)))

\* unifi_api.cpp:423-431
ParseStatus(statusLine) ==
  LET spaceIdx == IndexOf(statusLine, <<" ">>, 0)
  IN  IF spaceIdx > 0
      THEN LET endIdx == IndexOf(statusLine, <<" ">>, spaceIdx + 1)
           IN  IF endIdx > 0
               THEN Atol(Substring(statusLine, spaceIdx + 1, endIdx), 0)
               ELSE 0
      ELSE 0

HttpVersion == <<"H", "T", "T", "P", "/", "1", ".", "1">>

\* status lines as readStringUntil('\n') returns them; the empty one is
\* what a closed connection gives
StatusLines ==
  {HttpVersion \o <<" ">> \o code \o <<" ">> \o reason \o <<CR>> :
     code \in {<<"2", "0", "0">>, <<"3", "9", "9">>, <<"4", "0", "0">>,
               <<"4", "0", "1">>, <<"5", "0", "3">>},
     reason \in {<<>>, <<"O", "K">>}}
    \cup {<<>>}

\* DeserializationError codes deserializeJson can return
ParseErrors == {"EmptyInput", "IncompleteInput", "InvalidInput", "NoMemory"}

\* what the controller and the network answer to one attempt: connect()
\* fails; or a status line comes and the body, read through ChunkedStream,
\* does not parse; or it parses to a document
TopoAnswers ==
  {NoAnswer}
    \cup [connect : {TRUE}, statusLine : StatusLines, error : ParseErrors]
    \cup [connect : {TRUE}, statusLine : StatusLines, error : {"Ok"}, doc : OddDocs]
    \cup [connect : {TRUE},
          statusLine : {HttpVersion \o <<" ", "2", "0", "0", " ", "O", "K", CR>>},
          error : {"Ok"}, doc : TopologyDocs]

FetchFailed == [ok |-> FALSE, outputDoc |-> NoResult]

\* the request was sent and the controller answered it with HTTP 401
Unauthorized(answer) == answer.connect /\ ParseStatus(answer.statusLine) = 401

\* unifi_api.cpp:395-559
fetchTopologyStreaming(answer) ==
  IF ~answer.connect THEN FetchFailed
  ELSE IF ParseStatus(answer.statusLine) >= 400 THEN FetchFailed
  ELSE IF answer.error # "Ok" THEN FetchFailed
  ELSE [ok |-> TRUE, outputDoc |-> BuildOutput(FilterDoc(answer.doc))]

\* ---- unifiGetTopology ----

\* unifi_api.cpp:568
maxRetries == 3

NotLoggedInResult == [success |-> FALSE, message |-> "Not logged in"]

\* unifi_api.cpp:582
FailedResult ==
  [success |-> FALSE,
   message |-> "Failed after " \o ToString(maxRetries) \o " attempts",
   canRetry |-> TRUE]

exTopo == <<clock, callVars, sessionRest, loginVars, connVars, chunkVars, apiCall,
           ticks>>

\* unifi_api.cpp:562-570: entry of unifiGetTopology
CallTopology ==
  /\ pc = "top"
  /\ topoIn' = NoAnswer
  /\ attemptLog' = <<>>
  /\ IF ~isLoggedIn
     THEN /\ topoResult' = NotLoggedInResult
          /\ attempt' = 0
          /\ pc' = "top"
     ELSE /\ topoResult' = NoResult
          /\ attempt' = 1
          /\ pc' = "fetch"
  /\ UNCHANGED <<isLoggedIn, rejected, exTopo>>

MayRetry_Once(n) == n < maxRetries - 1

\* unifi_api.cpp:578
MayRetry(n) == n < maxRetries

\* unifi_api.cpp:570-591: one pass of the loop body, up to delay or return
FetchAttempt(answer, res) ==
  /\ pc = "fetch"
  /\ topoIn' = answer
  /\ attemptLog' = Append(attemptLog, res.ok)
  /\ IF ~res.ok
     THEN IF MayRetry(attempt)
          THEN /\ pc' = "delay"
               /\ UNCHANGED topoResult
          ELSE /\ topoResult' = FailedResult
               /\ pc' = "top"
     ELSE /\ topoResult' = res.outputDoc
          /\ pc' = "top"
  /\ rejected' = (rejected \/ Unauthorized(answer))
  /\ UNCHANGED <<attempt, isLoggedIn, exTopo>>

\* unifi_api.cpp:579-580 and the loop's attempt++; the clock is not read by
\* unifiGetTopology and is left where it is
RetryDelay ==
  /\ pc = "delay"
  /\ attempt' = attempt + 1
  /\ pc' = "fetch"
  /\ UNCHANGED <<topoResult, topoIn, attemptLog, isLoggedIn, rejected, exTopo>>

\* main.cpp:128-136, 163-168: the session comes and goes between calls
SessionChange ==
  /\ pc = "top"
  /\ isLoggedIn' = ~isLoggedIn
  /\ UNCHANGED <<pc, topoVars, rejected, exTopo>>

InitTopo ==
  /\ clock = BootMs
  /\ pc = "top"
  /\ InitCallIdle /\ InitSession /\ InitConnIdle /\ InitChunkIdle /\ InitTopoIdle
  /\ InitApiIdle
  /\ loginIn = NoLogin
  /\ loginRet = NoLogin

NextTopo ==
  \/ CallTopology
  \/ \E answer \in TopoAnswers :
       \E res \in {fetchTopologyStreaming(answer)} : FetchAttempt(answer, res)
  \/ RetryDelay
  \/ SessionChange

SpecTopo == InitTopo /\ [][NextTopo]_vars

(***************************************************************************)
(* Properties of the topology fetch.  The document side is stated on the   *)
(* document as the controller sent it, by the positions of its device      *)
(* entries, and not through the filter or the loops above.                 *)
(***************************************************************************)

\* positions <<site, floor, door, group, device>> of the device entries
EntryPaths(doc) ==
  LET sites == Member(doc, "data", <<>>)
  IN  UNION {
        LET floors == Member(sites[s], "floors", <<>>)
        IN  UNION {
              LET doors == Member(floors[f], "doors", <<>>)
              IN  UNION {
                    LET groups == Member(doors[d], "device_groups", <<>>)
                    IN  UNION { {<<s, f, d, g, k>> : k \in 1..Len(groups[g])} :
                                g \in 1..Len(groups) } :
                    d \in 1..Len(doors) } :
              f \in 1..Len(floors) } :
        s \in 1..Len(sites) }

EntryAt(doc, p) == doc.data[p[1]].floors[p[2]].doors[p[3]].device_groups[p[4]][p[5]]

\* p comes before q in depth-first document order
Before(p, q) == \E i \in 1..5 : p[i] < q[i] /\ \A j \in 1..(i - 1) : p[j] = q[j]

ContainsText(text, find) ==
  \E i \in 1..(Len(text) - Len(find) + 1) : SubSeq(text, i, i + Len(find) - 1) = find

\* the entry qualifies as a reader
Qualifies(e) ==
  /\ "unique_id" \in DOMAIN e
  /\ e.unique_id # ""
  /\ "device_type" \in DOMAIN e
  /\ \/ ContainsText(e.device_type, <<"U", "A", "-", "G", "2">>)
     \/ ContainsText(e.device_type, <<"U", "A", "-", "G", "3">>)
     \/ ContainsText(e.device_type, <<"R", "e", "a", "d", "e", "r">>)

QualifyingPaths(doc) == {p \in EntryPaths(doc) : Qualifies(EntryAt(doc, p))}

\* place of a qualifying entry among the qualifying entries
Rank(doc, p) == Cardinality({q \in QualifyingPaths(doc) : Before(q, p)}) + 1

ReaderKeys == {"id", "name", "mac", "type", "location"}

\* the call has returned the output of a successful attempt, and topoIn is
\* the answer that attempt read
TopoSucceeded == pc = "top" /\ topoResult.success

\* C8: for a topology document with N qualifying device entries the result
\* of a successful fetch holds exactly N reader records, the i-th record
\* made from the i-th qualifying entry in depth-first document order, each
\* record with exactly the keys id, name, mac, type, location and with its
\* values taken from the whitelisted members only; the result itself has
\* no member besides success and readers.
C8_TopologyExtraction ==
  TopoSucceeded =>
    LET doc     == topoIn.doc
        readers == topoResult.readers
        quals   == QualifyingPaths(doc)
    IN  /\ DOMAIN topoResult = {"success", "readers"}
        /\ Len(readers) = Cardinality(quals)
        /\ \A i \in 1..Len(readers) : DOMAIN readers[i] = ReaderKeys
        /\ \A p \in quals :
             LET r == readers[Rank(doc, p)]
                 e == EntryAt(doc, p)
             IN  /\ r.id = e.unique_id
                 /\ r.type = e.device_type
                 /\ r.name = Member(e, "name", "")
                 /\ r.mac = Member(e, "mac", "")
                 /\ "location" \in DOMAIN e => r.location # e.location

\* a successful fetch of a document with three entries at two depths, the
\* middle one not qualifying, returned the two others in document order
C8_Witness ==
  /\ TopoSucceeded
  /\ Cardinality(EntryPaths(topoIn.doc)) = 3
  /\ ~Qualifies(EntryAt(topoIn.doc, <<1, 1, 1, 1, 2>>))
  /\ Len(topoResult.readers) = 2
  /\ topoResult.readers[1].id = "r1"
  /\ topoResult.readers[2].id = "r3"

\* the entry has a record in the result
Emitted(e) ==
  \E i \in 1..Len(topoResult.readers) :
    /\ topoResult.readers[i].id = Member(e, "unique_id", "")
    /\ topoResult.readers[i].type = Member(e, "device_type", <<>>)

\* C9: after a successful fetch a device entry of the document has a
\* record in the result if and only if its unique_id is non-empty and its
\* device_type contains "UA-G2", "UA-G3" or "Reader", compared case-
\* sensitively; an entry whose unique_id is empty or missing has none,
\* whatever its type.
C9_ReaderClassification ==
  TopoSucceeded =>
    \A p \in EntryPaths(topoIn.doc) :
      LET e == EntryAt(topoIn.doc, p)
      IN  /\ Emitted(e) <=> Qualifies(e)
          /\ Member(e, "unique_id", "") = "" => ~Emitted(e)

\* one fetch met a UA-G3-Mini with an empty id and a UA-Hub with an id, both
\* left out, and a UA-G2-Pro with an id, emitted
C9_Witness ==
  /\ TopoSucceeded
  /\ \E p \in EntryPaths(topoIn.doc) :
       LET e == EntryAt(topoIn.doc, p)
       IN  e = Device(TypeG3Mini, "") /\ ~Emitted(e)
  /\ \E p \in EntryPaths(topoIn.doc) :
       LET e == EntryAt(topoIn.doc, p)
       IN  Member(e, "device_type", <<>>) = TypeHub
             /\ Member(e, "unique_id", "") # "" /\ ~Emitted(e)
  /\ \E p \in EntryPaths(topoIn.doc) :
       LET e == EntryAt(topoIn.doc, p)
       IN  Member(e, "device_type", <<>>) = TypeG2Pro /\ Emitted(e)

\* the status code of a status line, read at its fixed place
StatusCodeAt(statusLine) ==
  IF Len(statusLine) < 12 THEN 0
  ELSE 100 * HexVal(statusLine[10]) + 10 * HexVal(statusLine[11])
         + HexVal(statusLine[12])

\* the answer is a connection failure, an HTTP error, or a body that does
\* not decode or parse
FailedAnswer(answer) ==
  \/ ~answer.connect
  \/ StatusCodeAt(answer.statusLine) >= 400
  \/ answer.error # "Ok"

Last(log) == log[Len(log)]

\* C10: a topology call made while logged in makes at most 3 attempts; an
\* attempt fails exactly when the connection fails, the status is an HTTP
\* error, or the body does not decode or parse; every attempt before the
\* last one made has failed; after a successful attempt the call has
\* returned that attempt's reader list; after a failed attempt the call
\* goes on to another attempt while fewer than 3 have been made, and after
\* the 3rd failed attempt it has returned a failure with canRetry = true.
C10_TopologyRetryBudget ==
  /\ Len(attemptLog) <= 3
  /\ attempt <= 3
  /\ \A i \in 1..(Len(attemptLog) - 1) : ~attemptLog[i]
  /\ attemptLog # <<>> =>
       /\ Last(attemptLog) <=> ~FailedAnswer(topoIn)
       /\ Last(attemptLog) =>
            /\ pc = "top"
            /\ DOMAIN topoResult = {"success", "readers"}
            /\ topoResult.success
            /\ topoResult.readers = fetchTopologyStreaming(topoIn).outputDoc.readers
       /\ ~Last(attemptLog) /\ Len(attemptLog) < 3 =>
            /\ pc \in {"delay", "fetch"}
            /\ topoResult = NoResult
       /\ ~Last(attemptLog) /\ Len(attemptLog) = 3 =>
            /\ pc = "top"
            /\ DOMAIN topoResult = {"success", "message", "canRetry"}
            /\ ~topoResult.success
            /\ topoResult.canRetry

\* a call whose three attempts failed, the last one on a truncated body,
\* has returned the failure result
C10_Witness ==
  /\ pc = "top"
  /\ attemptLog = <<FALSE, FALSE, FALSE>>
  /\ topoIn.connect
  /\ topoIn.error = "IncompleteInput"
  /\ topoResult = FailedResult

\* a call that failed twice has returned the readers of its third attempt
TopologyThirdAttemptSucceeds ==
  /\ pc = "top"
  /\ attemptLog = <<FALSE, FALSE, TRUE>>
  /\ Len(topoResult.readers) = 3

(***************************************************************************)
(* SpecApi: the authenticated requests.  unifiTriggerRing() and            *)
(* unifiDismissCall() as the web handlers call them, unifiGetTopology(),   *)
(* unifiLogin() and the loss of the session, interleaved between loop      *)
(* passes.  The controller's answer to a request is its status line.       *)
(***************************************************************************)

\* what the controller and the network answer to a ring or dismiss request
ApiAnswers ==
  {[connect |-> FALSE, statusLine |-> <<>>]}
    \cup [connect : {TRUE},
          statusLine : {l \in StatusLines : l = <<>> \/ l[Len(l) - 1] = "K"}]

\* unifi_api.cpp:388, 679
IsSuccess_Below400(statusCode) == statusCode >= 200 /\ statusCode < 400

IsSuccess(statusCode) == statusCode >= 200 /\ statusCode < 300

\* the call returned before WiFiClientSecure::connect()
Refused == [connectCalled |-> FALSE, sent |-> FALSE, ret |-> FALSE]

\* unifi_api.cpp:353-390, 642-681: connect, the request, the status line
SendRequest(answer) ==
  IF ~answer.connect
    THEN [connectCalled |-> TRUE, sent |-> FALSE, ret |-> FALSE]
    ELSE [connectCalled |-> TRUE, sent |-> TRUE,
          ret |-> IsSuccess(ParseStatus(answer.statusLine))]

\* unifi_api.cpp:597-682
unifiTriggerRing(answer) ==
  IF ~isLoggedIn THEN Refused ELSE SendRequest(answer)

\* unifi_api.cpp:329-391
unifiDismissCall(deviceId, requestId, answer) ==
  IF ~isLoggedIn \/ requestId = "" THEN Refused ELSE SendRequest(answer)

\* the record of one call in apiCall
CallRecord(op, deviceId, requestId, answer, res) ==
  [op |-> op, deviceId |-> deviceId, requestId |-> requestId, answer |-> answer,
   res |-> res]

exApi == <<clock, pc, callVars, sessionVars, loginVars, connVars, chunkVars, topoVars,
           ticks>>

\* webserver.cpp:531-538: POST /api/control/ring
WebRing(answer) ==
  /\ pc = "top"
  /\ apiCall' = CallRecord("ring", "", "", answer, unifiTriggerRing(answer))
  /\ rejected' = (rejected \/ (isLoggedIn /\ Unauthorized(answer)))
  /\ UNCHANGED exApi

\* webserver.cpp:541-553: POST /api/control/dismiss
WebDismiss(answer) ==
  /\ pc = "top"
  /\ IF activeRequestId # ""
       THEN /\ apiCall' = CallRecord("dismiss", activeDeviceId, activeRequestId, answer,
                                     unifiDismissCall(activeDeviceId, activeRequestId,
                                                      answer))
            /\ rejected' = (rejected \/ (isLoggedIn /\ Unauthorized(answer)))
       ELSE UNCHANGED <<apiCall, rejected>>
  /\ UNCHANGED exApi

\* main.cpp:187: the loop decodes a frame between two requests
ApiDecode(m) ==
  /\ pc = "top"
  /\ handleWebSocketMessage(m)
  /\ UNCHANGED <<clock, pc, pendingMessage, pendingMessageProcess, mqttConnected,
                 mqttPublished, nextFid, unconsumed, dropped, decoded, exCall>>

ApiLogin(in) == pc = "top" /\ Login(in)

ApiForceRelogin == pc = "top" /\ ForceRelogin

\* the logins of SpecApi: no credentials, no connection, and the answers
\* with or without the TOKEN cookie
ApiLogins ==
  {in \in LoginInputs :
     /\ in.get.csrf = <<"tok0">>
     /\ in.post.csrf = None
     /\ in.post.updated = <<"def456">>
     /\ in.post.cookies \in {<<>>, <<TokenCookie(TRUE)>>}
     /\ in.post.ctype = "none"
     /\ ~in.post.lower}

\* the answers to a topology attempt in SpecApi
ApiTopoAnswers ==
  {a \in TopoAnswers :
     \/ ~a.connect
     \/ /\ ParseStatus(a.statusLine) \in {200, 401}
        /\ a.statusLine[Len(a.statusLine) - 1] = "K"
        /\ a.error = "InvalidInput" \/ (a.error = "Ok" /\ a.doc = [data |-> <<>>])}

ApiFrames == {RingBody("r1", "d1", "u1"), EndBody("r1")}

InitApi ==
  /\ clock = BootMs
  /\ pc = "top"
  /\ InitCallIdle /\ InitSession /\ InitConnIdle /\ InitChunkIdle /\ InitTopoIdle
  /\ InitApiIdle

NextApi ==
  \/ \E in \in ApiLogins : ApiLogin(in)
  \/ ApiForceRelogin
  \/ \E answer \in ApiAnswers : WebRing(answer)
  \/ \E answer \in ApiAnswers : WebDismiss(answer)
  \/ \E m \in ApiFrames : ApiDecode(m)
  \/ CallTopology
  \/ \E answer \in ApiTopoAnswers :
       \E res \in {fetchTopologyStreaming(answer)} : FetchAttempt(answer, res)
  \/ RetryDelay

SpecApi == InitApi /\ [][NextApi]_vars

\* ---- properties of SpecApi ----

\* a request that carries the session is sent in this step
RequestSent ==
  \/ \E answer \in ApiAnswers : WebRing(answer) /\ unifiTriggerRing(answer).sent
  \/ \E answer \in ApiAnswers :
       /\ WebDismiss(answer)
       /\ unifiDismissCall(activeDeviceId, activeRequestId, answer).sent
  \/ \E answer \in ApiTopoAnswers :
       /\ answer.connect
       /\ FetchAttempt(answer, fetchTopologyStreaming(answer))

\* C21: after the controller has answered a ring, dismiss or topology
\* request with HTTP 401, no further authenticated request is sent before
\* unifiLogin() has been called again.
C21_ReloginAfter401 == [][RequestSent => ~rejected]_vars

\* unifiLogin() runs in this step
LoginStep == \E in \in ApiLogins : ApiLogin(in)

\* C25: the stored session cookie and CSRF token change only in a step of
\* unifiLogin(): the ring, dismiss and topology requests, the decoding of a
\* frame and the forced re-login leave both as they are.
C25_TokensWrittenByLogin ==
  [][(csrfToken' # csrfToken \/ sessionCookie' # sessionCookie) => LoginStep]_vars

\* requests were made with the tokens of a login, the session was dropped
\* afterwards, and the tokens are still the ones the login stored
C25_Witness ==
  /\ ~isLoggedIn
  /\ sessionCookie = <<"abc123">> /\ csrfToken = <<"def456">>
  /\ apiCall.op = "dismiss" /\ apiCall.res.sent
  /\ attemptLog # <<>>
  /\ loginRet = NoLogin

\* the call this step records was refused before a connection was opened
RefusedCall(c) == ~isLoggedIn \/ (c.op = "dismiss" /\ c.requestId = "")

\* C26: unifiTriggerRing() and unifiDismissCall() return true exactly when
\* the request was sent and the status of the response is in 200..299; not
\* logged in, or with an empty request id for a dismiss, they return false
\* without opening a connection; when the connection cannot be opened they
\* return false; and the call leaves the ActiveCall as it was.
C26_RequestResults ==
  [][/\ \A deviceId \in {"", "d1"}, answer \in ApiAnswers :
          unifiDismissCall(deviceId, "", answer) = Refused
     /\ apiCall' # apiCall =>
          LET c == apiCall'
          IN  /\ c.res.ret <=>
                   /\ ~RefusedCall(c)
                   /\ c.answer.connect
                   /\ StatusCodeAt(c.answer.statusLine) \in 200..299
              /\ RefusedCall(c) => ~c.res.ret /\ ~c.res.connectCalled
              /\ ~RefusedCall(c) /\ ~c.answer.connect => ~c.res.ret
              /\ UNCHANGED ActiveCall]_vars

\* a dismiss answered with 200 has returned true and the call it dismissed
\* is still the ActiveCall
C26_Witness ==
  /\ apiCall.op = "dismiss" /\ apiCall.requestId = "r1"
  /\ apiCall.res.ret
  /\ StatusCodeAt(apiCall.answer.statusLine) = 200
  /\ activeRequestId = "r1" /\ activeDeviceId = "d1"

\* a ring made while not logged in has returned false without a connection
RingRefusedWhenLoggedOut ==
  /\ apiCall.op = "ring" /\ apiCall.res = Refused
  /\ apiCall.answer.connect
  /\ ~isLoggedIn /\ loginRet = "false"

\* ---- memory of the topology parse (SpecTopo) ----

\* the last attempt parsed a document
Parsed == topoIn.connect /\ topoIn.error = "Ok"

\* C29 (as claimed): the memory deserializeJson fills while parsing a
\* topology document is bounded by the whitelist, the filter document of
\* lines 456-462, whatever the size of the document.
C29_BoundedParseMemory == Parsed => Footprint(topoIn.doc) <= DocSlots(filter)

\* members the filter does not name add nothing to the memory filled
DroppedMembersCostNothing ==
  Parsed => Footprint(topoIn.doc) = Footprint(FilterDoc(topoIn.doc))
              /\ Footprint(topoIn.doc) <= DocSlots(topoIn.doc)

\* a document with two device entries in one group has been parsed and
\* fills more memory than the whitelist has places
FootprintGrowsWithEntries ==
  /\ Parsed /\ pc = "top" /\ topoResult.success
  /\ Len(topoResult.readers) = 3
  /\ Footprint(topoIn.doc) > 2 * DocSlots(filter)

\* a call of unifiDismissCall() returns true in this step
DismissSucceeds ==
  \E answer \in ApiAnswers :
    /\ WebDismiss(answer)
    /\ unifiDismissCall(activeDeviceId, activeRequestId, answer).ret

\* C32 (as claimed): a step in which unifiDismissCall() succeeds for the
\* active call leaves no ActiveCall: the three ids are empty afterwards.
C32_DismissClearsCall ==
  [][DismissSucceeds =>
       activeRequestId' = "" /\ activeDeviceId' = "" /\ activeConnectedUahId' = ""]_vars

\* POST /api/control/dismiss has succeeded for the call "r1" and the call
\* is still active
DismissedCallStillActive ==
  /\ apiCall.op = "dismiss" /\ apiCall.requestId = "r1" /\ apiCall.res.ret
  /\ activeRequestId = "r1"
  /\ activeConnectedUahId = "u1"

====
